---- MODULE Spec2Model ----
(***************************************************************************)
(* Sheets -> PowerPoint deck update: the bridge (powerpoint_bridge.py),    *)
(* the mapping loader (sheets_client.py), the value formatter              *)
(* (format_value.py) and the orchestrator (update_presentation.py).        *)
(*                                                                         *)
(* Python values are tagged records: PyNone, PyStr(s), PyInt(n),          *)
(* PyBool(b).                                                              *)
(* Python objects that are shared by reference (the Presentation a bridge  *)
(* holds, the shapes its caches hold) live in `heap`, a sequence of        *)
(* presentation objects; a reference is an index path into it.             *)
(***************************************************************************)
EXTENDS Integers, Sequences, FiniteSets, TLC

VARIABLES
    heap,           \* the Presentation objects created so far (one per successful open)
    presentation,   \* PowerPointBridge.presentation: 0 (None) or an index into heap
    shape_cache,    \* PowerPointBridge._shape_cache: (slide_index, name) -> shape reference
    table_cache,    \* PowerPointBridge._table_cache: (slide_index, name) -> table reference
    disk,           \* the presentation file on disk: [exists, doc]
    calls,          \* number of bridge calls made in a bridge session
    last,           \* the last bridge call: operation, arguments, heap before, result
    pc,             \* main(): the step the run is at
    exit_code,      \* the status main() exited with, -1 while it runs
    dry_run,        \* args.dry_run or config['dry_run']
    empty_value,    \* config['defaults']['empty_value']
    sheet_rows,     \* the rows A2:K of the mapping sheet, as the API returns them
    mappings,       \* main(): mappings
    ranges,         \* main(): ranges
    values_by_range,\* main(): values_by_range
    idx,            \* main(): position of the loop over mappings (1-based)
    success_count,  \* main(): success_count
    error_count,    \* main(): error_count
    errors,         \* main(): errors
    outcomes,       \* per processed row: its position, the mutator called, the result
    trace,          \* main(): its calls of open, read_mapping, batch_get_values and save
    opened,         \* the document as it was right after open()
    format_call,    \* a call of format_value: its arguments, and its result once made
    row_call        \* a call of from_row or read_mapping: the rows given, and its outcome once made

bridgeVars == <<heap, presentation, shape_cache, table_cache, disk>>
sessionVars == <<calls, last>>
mainVars == <<pc, exit_code, dry_run, empty_value, sheet_rows, mappings, ranges, values_by_range,
              idx, success_count, error_count, errors, outcomes, trace, opened>>
vars == <<bridgeVars, sessionVars, mainVars, format_call, row_call>>

----------------------------------------------------------------------------
(* Bounds of the model *)

\* a bridge session makes at most MaxCalls calls
MaxCalls == 2
\* the mapping sheet holds at most MaxRows rows
MaxRows == 3
\* slide, row and column arguments of bridge calls range over 0..MaxIndex
MaxIndex == 3
\* the serial numbers formatted reach SerialSpan days before and after 44287
SerialSpan == 35
\* read_mapping is given at most MaxLoad rows
MaxLoad == 3

----------------------------------------------------------------------------
(* Python values *)

PyNone == [t |-> "None"]
PyStr(s) == [t |-> "str", v |-> s]
PyInt(n) == [t |-> "int", v |-> n]
PyBool(b) == [t |-> "bool", v |-> b]
\* a float: v is the number, as defined under "Python floats" below
PyFloat(x) == [t |-> "float", v |-> x]

\* Python truthiness of a value (if x: ...)
Truthy(x) ==
    CASE x.t = "None" -> FALSE
      [] x.t = "str" -> x.v # ""
      [] x.t = "int" -> x.v # 0
      [] x.t = "bool" -> x.v
      [] x.t = "float" -> x.v.m # 0 \/ x.v.k < 0
      [] OTHER -> TRUE

----------------------------------------------------------------------------
(* Python strings *)

IsSpace(c) == c \in {" ", "\t", "\n", "\r"}

RECURSIVE LStrip(_)
LStrip(s) == IF s # "" /\ IsSpace(Head(s)) THEN LStrip(Tail(s)) ELSE s

RECURSIVE RStrip(_)
RStrip(s) ==
    IF s # "" /\ IsSpace(SubSeq(s, Len(s), Len(s))) THEN RStrip(SubSeq(s, 1, Len(s) - 1)) ELSE s

\* str.strip()
Strip(s) == RStrip(LStrip(s))

\* str.replace(c, '') for a one-character c
RECURSIVE Remove(_, _)
Remove(s, c) ==
    IF s = "" THEN ""
    ELSE IF Head(s) = c THEN Remove(Tail(s), c)
    ELSE Head(s) \o Remove(Tail(s), c)

UpperCase == "ABCDEFGHIJKLMNOPQRSTUVWXYZ"
LowerCase == "abcdefghijklmnopqrstuvwxyz"

LowerChar(c) ==
    IF \E i \in 1..26 : SubSeq(UpperCase, i, i) = c
    THEN LET i == CHOOSE j \in 1..26 : SubSeq(UpperCase, j, j) = c IN SubSeq(LowerCase, i, i)
    ELSE c

\* str.lower()
RECURSIVE Lower(_)
Lower(s) == IF s = "" THEN "" ELSE LowerChar(Head(s)) \o Lower(Tail(s))

IsDigit(c) == c \in {"0", "1", "2", "3", "4", "5", "6", "7", "8", "9"}

DigitVal(c) == CHOOSE d \in 0..9 : ToString(d) = c

AllDigits(s) == \A i \in 1..Len(s) : IsDigit(SubSeq(s, i, i))

\* the number a string of digits denotes ("" denotes 0)
RECURSIVE DigitsVal(_)
DigitsVal(s) ==
    IF s = "" THEN 0
    ELSE 10 * DigitsVal(SubSeq(s, 1, Len(s) - 1)) + DigitVal(SubSeq(s, Len(s), Len(s)))

RECURSIVE Pow10(_)
Pow10(k) == IF k = 0 THEN 1 ELSE 10 * Pow10(k - 1)

----------------------------------------------------------------------------
(* Python floats, as exact decimals: the value of Num(neg, m, k) is
   (neg ? -1 : 1) * m / 10^k, with m >= 0; neg keeps the sign of a zero.
   Infinity(neg) and NaN are the values that are not finite.
   float(s) is modelled for the decimal literals [+-]digits[.digits] and for
   inf, infinity and nan in any case; the inputs of the model hold no exponent
   or underscore literal. *)

Num(neg, m, k) == [neg |-> neg, m |-> m, k |-> k]
NoNum == [neg |-> FALSE, m |-> -1, k |-> 0]
Infinity(neg) == [neg |-> neg, m |-> 0, k |-> -1]
NaN == [neg |-> FALSE, m |-> 0, k |-> -2]

\* math.isfinite(x)
IsFinite(x) == x.k >= 0
\* x < 0
IsNegative(x) == x.neg /\ (x.m > 0 \/ x = Infinity(TRUE))
\* abs(x)
Abs(x) == [x EXCEPT !.neg = FALSE]

\* position of the first "." of s, 0 if none
DotAt(s) ==
    IF \E i \in 1..Len(s) : SubSeq(s, i, i) = "."
    THEN CHOOSE i \in 1..Len(s) : SubSeq(s, i, i) = "." /\ \A j \in 1..(i - 1) : SubSeq(s, j, j) # "."
    ELSE 0

\* float(s): NoNum stands for ValueError
ParseFloat(s) ==
    LET t == Strip(s)
        signed == t # "" /\ Head(t) \in {"-", "+"}
        neg == t # "" /\ Head(t) = "-"
        body == IF signed THEN Tail(t) ELSE t
        dot == DotAt(body)
        ip == IF dot = 0 THEN body ELSE SubSeq(body, 1, dot - 1)
        fp == IF dot = 0 THEN "" ELSE SubSeq(body, dot + 1, Len(body))
    IN  IF AllDigits(ip) /\ AllDigits(fp) /\ Len(ip) + Len(fp) > 0
        THEN Num(neg, DigitsVal(ip \o fp), Len(fp))
        ELSE IF Lower(body) \in {"inf", "infinity"} THEN Infinity(neg)
        ELSE IF Lower(body) = "nan" THEN NaN
        ELSE NoNum

\* int(x): truncation toward zero
TruncInt(x) == LET q == x.m \div Pow10(x.k) IN IF x.neg THEN 0 - q ELSE q

(* The float nearest m / 10^k is M / 2^e, with 2^52 <= M < 2^53. It is the
   number itself when 5^k divides m * 2^(e-k), and lies below or above it
   otherwise: which of the two decides how a decimal that is halfway between two
   results is rounded. Modelled for k <= 6. *)

RECURSIVE Pow2(_)
Pow2(n) == IF n = 0 THEN 1 ELSE 2 * Pow2(n - 1)

RECURSIVE Pow5(_)
Pow5(k) == IF k = 0 THEN 1 ELSE 5 * Pow5(k - 1)

\* 2^n modulo F
RECURSIVE Pow2Mod(_, _)
Pow2Mod(n, F) == IF n = 0 THEN 1 % F ELSE (2 * Pow2Mod(n - 1, F)) % F

\* floor(log2(n)) for an integer n >= 1
RECURSIVE Log2(_)
Log2(n) == IF n < 2 THEN 0 ELSE 1 + Log2(n \div 2)

\* the least j >= 1 with m * 2^j >= p, for 0 < m < p
RECURSIVE Doublings(_, _)
Doublings(m, p) == IF 2 * m >= p THEN 1 ELSE 1 + Doublings(2 * m, p)

\* floor(log2(|x|)) for x # 0
Log2Of(x) ==
    IF x.m >= Pow10(x.k) THEN Log2(x.m \div Pow10(x.k)) ELSE 0 - Doublings(x.m, Pow10(x.k))

\* (m * 2^(e-k)) modulo 5^k, where e = 52 - floor(log2(|x|))
MantissaRem(x) == ((x.m % Pow5(x.k)) * Pow2Mod(52 - Log2Of(x) - x.k, Pow5(x.k))) % Pow5(x.k)

\* c such that M * F = m * 2^(e-k) + c, for the remainder rem modulo F = 5^k
CarryOf(rem, F) == IF rem = 0 THEN 0 ELSE IF 2 * rem < F THEN 0 - rem ELSE F - rem

MantissaCarry(x) == CarryOf(MantissaRem(x), Pow5(x.k))

Sign(n) == IF n > 0 THEN 1 ELSE IF n < 0 THEN -1 ELSE 0

\* the sign of |float(x)| - |x|
BinaryBias(x) == IF ~IsFinite(x) \/ x.m = 0 THEN 0 ELSE Sign(MantissaCarry(x))

\* the product float(x) * 100 is round(100 * M / 2^s) * 2^(s-e), with s = 7 when
\* |x| / 2^floor(log2(|x|)) >= 1.28 and s = 6 otherwise
ProductShift(x) ==
    IF x.m >= Pow10(x.k)
    THEN (IF 100 * x.m >= 128 * Pow2(Log2Of(x)) * Pow10(x.k) THEN 7 ELSE 6)
    ELSE (IF 100 * x.m * Pow2(0 - Log2Of(x)) >= 128 * Pow10(x.k) THEN 7 ELSE 6)

\* the inverse of F modulo 256, F odd
Inverse256(F) == CHOOSE i \in 1..255 : (i * (F % 256)) % 256 = 1

\* 100 * M modulo 2^(s+1): M modulo 256 is c / F modulo 256
ProductLowBits(c, F, s) == (100 * (((c % 256) * Inverse256(F)) % 256)) % Pow2(s + 1)

\* whether 100 * M / 2^s is rounded up, ties to even
ProductRoundsUp(low, s) ==
    \/ 2 * (low % Pow2(s)) > Pow2(s)
    \/ 2 * (low % Pow2(s)) = Pow2(s) /\ low \div Pow2(s) = 1

\* the sign of |float(x) * 100| - |100 * x|, in units of 2^(s-e) / F
ProductSign(c, F, s, low) ==
    Sign(100 * c - (low % Pow2(s)) * F + (IF ProductRoundsUp(low, s) THEN Pow2(s) * F ELSE 0))

ProductBias(x) ==
    IF ~IsFinite(x) \/ x.m = 0 THEN 0
    ELSE ProductSign(MantissaCarry(x), Pow5(x.k), ProductShift(x),
                     ProductLowBits(MantissaCarry(x), Pow5(x.k), ProductShift(x)))

\* |x| * 10^d rounded to an integer as the float is: x is the decimal value of
\* the float and bias the sign of the float's distance from it; a float that is
\* exactly halfway goes to the even neighbour
RoundScaled(x, d, bias) ==
    IF x.k <= d THEN x.m * Pow10(d - x.k)
    ELSE LET div == Pow10(x.k - d)
             q == x.m \div div
             r == x.m % div
         IN  IF 2 * r > div THEN q + 1
             ELSE IF 2 * r = div
                  THEN (IF bias > 0 THEN q + 1 ELSE IF bias < 0 THEN q ELSE q + (q % 2))
             ELSE q

\* digits with a comma before every group of three from the right
RECURSIVE Grouped(_)
Grouped(s) ==
    IF Len(s) <= 3 THEN s
    ELSE Grouped(SubSeq(s, 1, Len(s) - 3)) \o "," \o SubSeq(s, Len(s) - 2, Len(s))

RECURSIVE ZeroPad(_, _)
ZeroPad(s, d) == IF Len(s) >= d THEN s ELSE ZeroPad("0" \o s, d)

\* the text of q / 10^d with d decimals
ScaledText(neg, q, d, commas) ==
    (IF neg THEN "-" ELSE "") \o (IF commas THEN Grouped(ToString(q \div Pow10(d))) ELSE ToString(q \div Pow10(d)))
      \o (IF d > 0 THEN "." \o ZeroPad(ToString(q % Pow10(d)), d) ELSE "")

\* f"{y:,.{d}f}" (commas) and f"{y:.{d}f}" (no commas) of the float y of decimal
\* value x and of the given bias
FixedPointOf(x, d, commas, bias) ==
    IF x = NaN THEN "nan"
    ELSE IF ~IsFinite(x) THEN (IF x.neg THEN "-inf" ELSE "inf")
    ELSE ScaledText(x.neg, RoundScaled(x, d, bias), d, commas)

\* the same of the float nearest x
FixedPoint(x, d, commas) == FixedPointOf(x, d, commas, BinaryBias(x))

\* int(round(x)): a float halfway between two integers is a binary fraction
RoundInt(x) == IF x.neg THEN 0 - RoundScaled(x, 0, 0) ELSE RoundScaled(x, 0, 0)

\* f"{n:,}" for an int n
IntGrouped(n) == IF n < 0 THEN "-" \o Grouped(ToString(0 - n)) ELSE Grouped(ToString(n))

----------------------------------------------------------------------------
(* format_value.py *)

\* s without its trailing zeros
RECURSIVE TrimZeros(_)
TrimZeros(s) ==
    IF s # "" /\ SubSeq(s, Len(s), Len(s)) = "0" THEN TrimZeros(SubSeq(s, 1, Len(s) - 1)) ELSE s

\* the digits after the point in repr(x): at least one
FractionDigits(fp) == IF fp = "" THEN "0" ELSE fp

\* repr(x) of a float, for the magnitudes repr writes without an exponent
\* (0, and 1e-4 <= |x| < 1e16)
FloatRepr(x) ==
    IF x = NaN THEN "nan"
    ELSE IF ~IsFinite(x) THEN (IF x.neg THEN "-inf" ELSE "inf")
    ELSE (IF x.neg THEN "-" ELSE "") \o ToString(x.m \div Pow10(x.k)) \o "."
           \o FractionDigits(TrimZeros(ZeroPad(ToString(x.m % Pow10(x.k)), x.k)))

\* str(value)
PyStrOf(value) ==
    CASE value.t = "None" -> "None"
      [] value.t = "str" -> value.v
      [] value.t = "int" -> ToString(value.v)
      [] value.t = "bool" -> IF value.v THEN "True" ELSE "False"
      [] value.t = "float" -> FloatRepr(value.v)

\* parse_number: NoNum stands for None
parse_number(value) ==
    CASE value.t = "None" -> NoNum
      [] value.t \in {"int", "bool"} ->
            LET n == IF value.t = "bool" THEN (IF value.v THEN 1 ELSE 0) ELSE value.v
            IN  Num(n < 0, IF n < 0 THEN 0 - n ELSE n, 0)
      [] value.t = "float" -> value.v
      [] value.t = "str" ->
            LET c1 == Remove(Remove(Remove(Remove(Strip(value.v), ","), "$"), "%"), " ")
                cleaned == IF c1 # "" /\ Head(c1) = "(" /\ SubSeq(c1, Len(c1), Len(c1)) = ")"
                           THEN "-" \o SubSeq(c1, 2, Len(c1) - 1)
                           ELSE c1
            IN  ParseFloat(cleaned)
      [] OTHER -> NoNum

\* format_currency with the sign after the symbol
format_currency_SignAfterSymbol(value, decimals) ==
    LET formatted == FixedPoint(Abs(value), IF decimals \in {0, 1} THEN decimals ELSE 2, TRUE)
    IN  IF IsNegative(value) THEN "$-" \o formatted ELSE "$" \o formatted

\* format_currency with symbol '$'
format_currency(value, decimals) ==
    LET formatted == FixedPoint(Abs(value), IF decimals \in {0, 1} THEN decimals ELSE 2, TRUE)
    IN  IF IsNegative(value) THEN "-$" \o formatted ELSE "$" \o formatted

\* format_percent
format_percent(value, decimals, multiply) ==
    IF multiply /\ IsFinite(value)
    THEN FixedPointOf(Num(value.neg, value.m * 100, value.k), decimals, FALSE, ProductBias(value)) \o "%"
    ELSE FixedPoint(value, decimals, FALSE) \o "%"

\* format_integer
format_integer(value) == IntGrouped(RoundInt(value))

\* format_decimal
format_decimal(value, decimals) == FixedPoint(value, decimals, TRUE)

NumberWords ==
    <<"One", "Two", "Three", "Four", "Five", "Six", "Seven", "Eight", "Nine", "Ten",
      "Eleven", "Twelve", "Thirteen", "Fourteen", "Fifteen", "Sixteen", "Seventeen",
      "Eighteen", "Nineteen", "Twenty">>

\* the result of format_text_number, given num = parse_number(value)
NumberText(value, num, int_val) ==
    IF num # NoNum /\ int_val = 0 THEN "Zero"
    ELSE IF num # NoNum /\ int_val \in 1..20 THEN NumberWords[int_val]
    ELSE PyStrOf(value)

\* the text of the number num of format_text_number; round() of an infinity or
\* a nan raises, and the handler of format_value makes str(raw_value) the result
NumberTextOf(value, num) ==
    IF num # NoNum /\ ~IsFinite(num) THEN PyStrOf(value) ELSE NumberText(value, num, RoundInt(num))

\* format_text_number
format_text_number(value) == NumberTextOf(value, parse_number(value))

MonthNames ==
    <<"January", "February", "March", "April", "May", "June", "July", "August",
      "September", "October", "November", "December">>

IsLeap(y) == (y % 4 = 0 /\ y % 100 # 0) \/ y % 400 = 0

DaysInMonth(y, m) ==
    IF m = 2 THEN (IF IsLeap(y) THEN 29 ELSE 28)
    ELSE IF m \in {4, 6, 9, 11} THEN 30 ELSE 31

NoDate == [y |-> 0, m |-> 0, d |-> 0]

\* the date n days after 1900-01-01
DateOfSerial_Epoch1900(n) ==
    LET z == n - 25567 + 719468
        era == z \div 146097
        doe == z - era * 146097
        yoe == (doe - doe \div 1460 + doe \div 36524 - doe \div 146096) \div 365
        doy == doe - (365 * yoe + yoe \div 4 - yoe \div 100)
        mp == (5 * doy + 2) \div 153
        d == doy - (153 * mp + 2) \div 5 + 1
        m == IF mp < 10 THEN mp + 3 ELSE mp - 9
        y == yoe + era * 400 + (IF m <= 2 THEN 1 ELSE 0)
    IN  IF n > 999999999 \/ n < -999999999 \/ y < 1 \/ y > 9999 THEN NoDate
        ELSE [y |-> y, m |-> m, d |-> d]

\* SHEETS_EPOCH + timedelta(days=n): the calendar date n days after 1899-12-30,
\* NoDate when timedelta or the sum raises OverflowError (|n| > 999999999, or a
\* year outside 1..9999)
DateOfSerial(n) ==
    LET z == n - 25569 + 719468
        era == z \div 146097
        doe == z - era * 146097
        yoe == (doe - doe \div 1460 + doe \div 36524 - doe \div 146096) \div 365
        doy == doe - (365 * yoe + yoe \div 4 - yoe \div 100)
        mp == (5 * doy + 2) \div 153
        d == doy - (153 * mp + 2) \div 5 + 1
        m == IF mp < 10 THEN mp + 3 ELSE mp - 9
        y == yoe + era * 400 + (IF m <= 2 THEN 1 ELSE 0)
    IN  IF n > 999999999 \/ n < -999999999 \/ y < 1 \/ y > 9999 THEN NoDate
        ELSE [y |-> y, m |-> m, d |-> d]

\* position of the first occurrence of the character c in s, 0 if none
CharAt(s, c) ==
    IF \E i \in 1..Len(s) : SubSeq(s, i, i) = c
    THEN CHOOSE i \in 1..Len(s) : SubSeq(s, i, i) = c /\ \A j \in 1..(i - 1) : SubSeq(s, j, j) # c
    ELSE 0

\* strptime fields: %Y is four digits; %m is 1..12 and %d 1..31, in one or two digits
IsYearField(f) == Len(f) = 4 /\ AllDigits(f)
IsMonthField(f) == Len(f) \in {1, 2} /\ AllDigits(f) /\ DigitsVal(f) \in 1..12
IsDayField(f) ==
    \/ Len(f) \in {1, 2} /\ AllDigits(f) /\ DigitsVal(f) \in 1..31
    \/ Len(f) = 2 /\ Head(f) = " " /\ IsDigit(Tail(f)) /\ Tail(f) # "0"
DayVal(f) == IF Head(f) = " " THEN DigitsVal(Tail(f)) ELSE DigitsVal(f)

\* datetime(y, m, d), NoDate for ValueError
MakeDate(y, m, d) ==
    IF y >= 1 /\ m \in 1..12 /\ d >= 1 /\ d <= DaysInMonth(y, m) THEN [y |-> y, m |-> m, d |-> d] ELSE NoDate

\* the three fields of s around two separators sep, <<>> if s has not exactly two
Fields3(s, sep) ==
    LET i == CharAt(s, sep)
        rest == SubSeq(s, i + 1, Len(s))
        j == CharAt(rest, sep)
        tail == SubSeq(rest, j + 1, Len(rest))
    IN  IF i = 0 \/ j = 0 \/ CharAt(tail, sep) # 0 THEN <<>>
        ELSE <<SubSeq(s, 1, i - 1), SubSeq(rest, 1, j - 1), tail>>

\* the date of the fields f, of which number y is the year, m the month, d the day
FieldsDate(f, y, m, d) ==
    IF f # <<>> /\ IsYearField(f[y]) /\ IsMonthField(f[m]) /\ IsDayField(f[d])
    THEN MakeDate(DigitsVal(f[y]), DigitsVal(f[m]), DayVal(f[d]))
    ELSE NoDate

\* the date of "%B %d, %Y": the month name (any case) before position sp, then
\* whitespace, the day, a comma before position comma of rest, whitespace, the year
NamedDate(name, rest, comma) ==
    IF /\ comma > 1
       /\ \E m \in 1..12 : Lower(MonthNames[m]) = name
       /\ IsDayField(SubSeq(rest, 1, comma - 1)) /\ Head(rest) # " "
       /\ SubSeq(rest, comma + 1, Len(rest)) # LStrip(SubSeq(rest, comma + 1, Len(rest)))
       /\ IsYearField(LStrip(SubSeq(rest, comma + 1, Len(rest))))
    THEN MakeDate(DigitsVal(LStrip(SubSeq(rest, comma + 1, Len(rest)))),
                  CHOOSE m \in 1..12 : Lower(MonthNames[m]) = name,
                  DigitsVal(SubSeq(rest, 1, comma - 1)))
    ELSE NoDate

NamedDateAt(s, sp, rest) ==
    IF sp > 1 THEN NamedDate(Lower(SubSeq(s, 1, sp - 1)), rest, CharAt(rest, ",")) ELSE NoDate

\* datetime.strptime(s, fmt) for the formats of format_date_mdy, NoDate for ValueError
Strptime(s, fmt) ==
    CASE fmt = "%Y-%m-%d" -> FieldsDate(Fields3(s, "-"), 1, 2, 3)
      [] fmt = "%m/%d/%Y" -> FieldsDate(Fields3(s, "/"), 3, 1, 2)
      [] fmt = "%d/%m/%Y" -> FieldsDate(Fields3(s, "/"), 3, 2, 1)
      [] fmt = "%B %d, %Y" -> NamedDateAt(s, CharAt(s, " "), LStrip(SubSeq(s, CharAt(s, " "), Len(s))))
      [] OTHER -> NoDate

\* the first format of fmts that parses s: parsed is the result of the first of them
RECURSIVE FirstParse(_, _)
FirstParsed(parsed, s, fmts) == IF parsed # NoDate THEN parsed ELSE FirstParse(s, Tail(fmts))

FirstParse(s, fmts) ==
    IF fmts = <<>> THEN NoDate ELSE FirstParsed(Strptime(s, Head(fmts)), s, fmts)

\* date_obj of format_date_mdy / format_date_short
DateObj(value, fmts) ==
    CASE value.t \in {"int", "bool"} -> DateOfSerial(IF value.t = "bool" THEN (IF value.v THEN 1 ELSE 0) ELSE value.v)
      [] value.t = "float" -> IF IsFinite(value.v) THEN DateOfSerial(TruncInt(value.v)) ELSE NoDate
      [] value.t = "str" -> FirstParse(Strip(value.v), fmts)
      [] OTHER -> NoDate

\* date_obj.strftime("%B %d, %Y").replace(" 0", " "), or str(value) without a date
DateMdyText(value, date_obj) ==
    IF date_obj # NoDate
    THEN MonthNames[date_obj.m] \o " " \o ToString(date_obj.d) \o ", " \o ToString(date_obj.y)
    ELSE PyStrOf(value)

\* format_date_mdy
format_date_mdy(value) ==
    DateMdyText(value, DateObj(value, <<"%Y-%m-%d", "%m/%d/%Y", "%d/%m/%Y", "%B %d, %Y">>))

\* f"{date_obj.month}/{date_obj.year}", or str(value) without a date
DateShortText(value, date_obj) ==
    IF date_obj # NoDate
    THEN ToString(date_obj.m) \o "/" \o ToString(date_obj.y)
    ELSE PyStrOf(value)

\* format_date_short
format_date_short(value) ==
    DateShortText(value, DateObj(value, <<"%Y-%m-%d", "%m/%d/%Y", "%d/%m/%Y">>))

NumericFormats ==
    {"currency0", "currency1", "currency2", "percent0", "percent1", "percent2",
     "integer", "decimal1", "decimal2"}

\* multiply with abs(num) < 1
Multiplies_Below1(num) == IsFinite(num) /\ num.m > 0 /\ num.m < Pow10(num.k)

\* multiply of the percent branches: abs(num) <= 1 and abs(num) > 0
Multiplies(num) == IsFinite(num) /\ num.m > 0 /\ num.m <= Pow10(num.k)

\* the branches that parse a number, with an empty text where the number is not
\* parsed or round() raises
NumericText_NoFallback(raw_value, f, num) ==
    IF num = NoNum THEN ""
    ELSE IF f = "integer" /\ ~IsFinite(num) THEN ""
    ELSE CASE f = "currency0" -> format_currency(num, 0)
           [] f = "currency1" -> format_currency(num, 1)
           [] f = "currency2" -> format_currency(num, 2)
           [] f = "percent0" -> format_percent(num, 0, Multiplies(num))
           [] f = "percent1" -> format_percent(num, 1, Multiplies(num))
           [] f = "percent2" -> format_percent(num, 2, Multiplies(num))
           [] f = "integer" -> format_integer(num)
           [] f = "decimal1" -> format_decimal(num, 1)
           [] f = "decimal2" -> format_decimal(num, 2)

\* the branches of format_value that parse a number: num = parse_number(raw_value).
\* round() of an infinity or a nan raises in format_integer, and the handler of
\* format_value makes str(raw_value) the result
NumericText(raw_value, f, num) ==
    IF num = NoNum THEN PyStrOf(raw_value)
    ELSE IF f = "integer" /\ ~IsFinite(num) THEN PyStrOf(raw_value)
    ELSE CASE f = "currency0" -> format_currency(num, 0)
           [] f = "currency1" -> format_currency(num, 1)
           [] f = "currency2" -> format_currency(num, 2)
           [] f = "percent0" -> format_percent(num, 0, Multiplies(num))
           [] f = "percent1" -> format_percent(num, 1, Multiplies(num))
           [] f = "percent2" -> format_percent(num, 2, Multiplies(num))
           [] f = "integer" -> format_integer(num)
           [] f = "decimal1" -> format_decimal(num, 1)
           [] f = "decimal2" -> format_decimal(num, 2)

\* result of format_value for the normalised format name f
FormatResult(raw_value, f) ==
    CASE f \in NumericFormats -> NumericText(raw_value, f, parse_number(raw_value))
      [] f = "date_mdy" -> format_date_mdy(raw_value)
      [] f = "date_short" -> format_date_short(raw_value)
      [] f = "text_number" -> format_text_number(raw_value)
      [] OTHER -> PyStrOf(raw_value)

\* format_value with the prefix and the suffix around the empty value
format_value_AffixesAlways(raw_value, fmt, prefix, suffix, empty) ==
    IF raw_value = PyNone \/ (raw_value.t = "str" /\ Strip(raw_value.v) = "")
    THEN prefix \o empty \o suffix
    ELSE prefix \o FormatResult(raw_value, IF fmt # "" THEN Strip(Lower(fmt)) ELSE "text") \o suffix

\* format_value without the suffix
format_value_NoSuffix(raw_value, fmt, prefix, suffix, empty) ==
    IF raw_value = PyNone \/ (raw_value.t = "str" /\ Strip(raw_value.v) = "")
    THEN empty
    ELSE prefix \o FormatResult(raw_value, IF fmt # "" THEN Strip(Lower(fmt)) ELSE "text")

\* format_value
format_value(raw_value, fmt, prefix, suffix, empty) ==
    IF raw_value = PyNone \/ (raw_value.t = "str" /\ Strip(raw_value.v) = "")
    THEN empty
    ELSE prefix \o FormatResult(raw_value, IF fmt # "" THEN Strip(Lower(fmt)) ELSE "text") \o suffix

----------------------------------------------------------------------------
(* sheets_client.py *)

MappingRow(id, sheet_range, slide_index, target_type, object_name, row, col, format, prefix, suffix, notes) ==
    [id |-> id, sheet_range |-> sheet_range, slide_index |-> slide_index,
     target_type |-> target_type, object_name |-> object_name, row |-> row, col |-> col,
     format |-> format, prefix |-> prefix, suffix |-> suffix, notes |-> notes]

\* get_cell of from_row: index is 0-based, as in the source
get_cell(row, index, default) ==
    IF index + 1 > Len(row) THEN default
    ELSE IF row[index + 1] # PyNone THEN row[index + 1] ELSE default

\* an exception that leaves from_row: int() of an infinite float raises
\* OverflowError, which get_int does not catch (line 53)
OverflowError == [t |-> "raise", v |-> "OverflowError"]

\* int(x) of get_int for the float x: ValueError for a NaN gives the default
IntOfFloat(x, default) ==
    IF x = NoNum \/ x = NaN THEN default
    ELSE IF ~IsFinite(x) THEN OverflowError
    ELSE PyInt(TruncInt(x))

\* get_int of from_row: PyNone, PyInt(n) or the exception it lets through
get_int(row, index, default) ==
    IF index + 1 > Len(row) THEN default
    ELSE LET val == row[index + 1] IN
         IF val = PyNone \/ val = PyStr("") THEN default
         ELSE IF val.t = "int" THEN val
         ELSE IF val.t = "bool" THEN PyInt(IF val.v THEN 1 ELSE 0)
         ELSE IF val.t = "float" THEN IntOfFloat(val.v, default)
         ELSE IF val.t = "str" THEN IntOfFloat(ParseFloat(val.v), default)
         ELSE default

\* MappingRow.from_row: the MappingRow, or the exception of one of its get_int
from_row(row) ==
    IF \E index \in {2, 5, 6} : get_int(row, index, PyNone) = OverflowError THEN OverflowError
    ELSE MappingRow(
        PyStrOf(get_cell(row, 0, PyStr(""))),
        PyStrOf(get_cell(row, 1, PyStr(""))),
        LET n == get_int(row, 2, PyInt(1)) IN IF Truthy(n) THEN n.v ELSE 1,
        Lower(PyStrOf(get_cell(row, 3, PyStr("shape")))),
        PyStrOf(get_cell(row, 4, PyStr(""))),
        get_int(row, 5, PyNone),
        get_int(row, 6, PyNone),
        PyStrOf(get_cell(row, 7, PyStr("text"))),
        PyStrOf(get_cell(row, 8, PyStr(""))),
        PyStrOf(get_cell(row, 9, PyStr(""))),
        PyStrOf(get_cell(row, 10, PyStr(""))))

\* read_mapping without the test of column B: rows without a sheet_range are kept
KeepsRow_NoKeyCheck(row) ==
    row # <<>> /\ \E i \in 1..Len(row) : Truthy(row[i])

\* whether read_mapping keeps a row of the sheet (lines 165-170)
KeepsRow(row) ==
    /\ row # <<>> /\ \E i \in 1..Len(row) : Truthy(row[i])
    /\ Len(row) >= 2 /\ Truthy(row[2])

\* SheetsClient.read_mapping on the rows the API returned: the mappings list
RECURSIVE read_mapping(_)
read_mapping(values) ==
    IF values = <<>> THEN <<>>
    ELSE IF KeepsRow(Head(values)) /\ from_row(Head(values)) # OverflowError
    THEN <<from_row(Head(values))>> \o read_mapping(Tail(values))
    ELSE read_mapping(Tail(values))

\* SheetsClient.batch_get_values: the dict built from the value ranges the API
\* returned; content[key] is the first cell of the range, which is None when the
\* range is empty
batch_get_values(keys, content) ==
    [key \in {keys[i] : i \in 1..Len(keys)} |-> IF key \in DOMAIN content THEN content[key] ELSE PyNone]

\* dict.get(key): PyNone when the key is absent
DictGet(d, key) == IF key \in DOMAIN d THEN d[key] ELSE PyNone

----------------------------------------------------------------------------
(* Ordering of strings, for sorted() *)

Alphabet == " !$%()*+,-./0123456789:;<=>?ABCDEFGHIJKLMNOPQRSTUVWXYZ_abcdefghijklmnopqrstuvwxyz"

\* code-point order of two characters; the keys of the model are written in Alphabet
CharLess(a, b) == CharAt(Alphabet, a) < CharAt(Alphabet, b)

RECURSIVE StrLess(_, _)
StrLess(a, b) ==
    IF b = "" THEN FALSE
    ELSE IF a = "" THEN TRUE
    ELSE IF Head(a) = Head(b) THEN StrLess(Tail(a), Tail(b))
    ELSE CharLess(Head(a), Head(b))

\* sorted(S) for a set S of strings
RECURSIVE SortedSeq(_)
SortedSeq(S) ==
    IF S = {} THEN <<>>
    ELSE LET least == CHOOSE x \in S : \A y \in S \ {x} : StrLess(x, y)
         IN  <<least>> \o SortedSeq(S \ {least})

----------------------------------------------------------------------------
(* The document model python-pptx exposes *)

Font(name, size, bold, italic, color) ==
    [name |-> name, size |-> size, bold |-> bold, italic |-> italic, color |-> color]

\* the font of a run just made by add_run(): nothing set
DefaultFont == Font(PyNone, PyNone, PyNone, PyNone, PyNone)

\* a font colour that is a theme colour: reading .rgb of it raises
SchemeColor == [t |-> "scheme"]

Run(text, font) == [text |-> text, font |-> font]
\* a paragraph: its a:r elements in order, and the number of its a:br elements
Para(runs) == [runs |-> runs, breaks |-> 0]
Cell(paragraphs) == [paragraphs |-> paragraphs]
Table(ncols, rows) == [ncols |-> ncols, rows |-> rows]
NoTable == Table(0, <<>>)

TextShape(name, paragraphs) ==
    [name |-> name, has_text_frame |-> TRUE, paragraphs |-> paragraphs,
     has_table |-> FALSE, table |-> NoTable]
TableShape(name, table) ==
    [name |-> name, has_text_frame |-> FALSE, paragraphs |-> <<>>,
     has_table |-> TRUE, table |-> table]
PictureShape(name) ==
    [name |-> name, has_text_frame |-> FALSE, paragraphs |-> <<>>,
     has_table |-> FALSE, table |-> NoTable]

Arial == Font(PyStr("Arial"), PyInt(24), PyBool(TRUE), PyBool(FALSE), PyStr("FF0000"))
Plain == Font(PyNone, PyNone, PyNone, PyBool(TRUE), SchemeColor)

\* a font whose name is the empty string (a:latin typeface=""), black
Unnamed == Font(PyStr(""), PyInt(12), PyNone, PyNone, PyStr("000000"))

PlainCell(text) == Cell(<<Para(<<Run(text, DefaultFont)>>)>>)

\* A deck with the cases the bridge distinguishes: a text shape of two paragraphs
\* whose first has two runs, two shapes of one name, a picture, a paragraph
\* without runs, a text frame without paragraphs, a text shape and a table of
\* one name, a 2x2 table.
SampleDeck ==
    << \* slide 1
       << TextShape("Title", <<Para(<<Run("Old", Arial), Run("er", Plain)>>),
                               Para(<<Run("Sub", Plain)>>)>>),
          PictureShape("Logo"),
          TextShape("Title", <<Para(<<Run("Second", Plain)>>)>>),
          TextShape("Blank", <<Para(<<>>)>>) >>,
       \* slide 2
       << TextShape("Tbl", <<>>),
          TableShape("Tbl", Table(2,
              << <<PlainCell("a"), Cell(<<Para(<<Run("b", Arial)>>), Para(<<Run("b2", Plain)>>)>>)>>,
                 <<Cell(<<Para(<<>>)>>), Cell(<<>>)>> >>)) >> >>

\* A deck of one slide
SmallDeck ==
    << << TextShape("Title", <<Para(<<Run("One", Unnamed)>>)>>),
          TableShape("Tbl", Table(1, << <<PlainCell("c")>> >>)) >> >>

Decks == {SampleDeck, SmallDeck}

----------------------------------------------------------------------------
(* References into the heap *)

NoRef == [pres |-> 0, slide |-> 0, shape |-> 0]
Ref(p, s, k) == [pres |-> p, slide |-> s, shape |-> k]
Deref(h, r) == h[r.pres][r.slide][r.shape]

\* dict lookup helpers: a cache is a function whose domain is its key set
Put(cache, key, val) == [k \in DOMAIN cache \cup {key} |-> IF k = key THEN val ELSE cache[k]]
EmptyDict == [k \in {} |-> NoRef]

----------------------------------------------------------------------------
(* PowerPointBridge: lookups *)

\* _get_slide: the 1-based slide number, or 0 for None
GetSlide(h, p, slide_index) ==
    IF p = 0 THEN 0
    ELSE IF slide_index < 1 \/ slide_index > Len(h[p]) THEN 0
    ELSE slide_index

\* the test of the loops over slide.shapes: the name, and has_table for a table
Matches(sh, name, table) == sh.name = name /\ (table => sh.has_table)

\* position of the first shape of the slide that the loop returns, 0 if none
FirstIndex(shapes, name, table) ==
    IF \E k \in 1..Len(shapes) : Matches(shapes[k], name, table)
    THEN CHOOSE k \in 1..Len(shapes) :
            Matches(shapes[k], name, table) /\ \A j \in 1..(k - 1) : ~Matches(shapes[j], name, table)
    ELSE 0

\* _find_shape_by_name: [ref, cache]: the shape found (NoRef for None) and the
\* shape cache after the call
FindShapeByName(h, p, cache, slide_index, shape_name) ==
    LET cache_key == <<slide_index, shape_name>>
        slide == GetSlide(h, p, slide_index)
        k == FirstIndex(h[p][slide], shape_name, FALSE)
    IN  IF cache_key \in DOMAIN cache THEN [ref |-> cache[cache_key], cache |-> cache]
        ELSE IF slide = 0 THEN [ref |-> NoRef, cache |-> cache]
        ELSE IF k # 0 THEN [ref |-> Ref(p, slide, k), cache |-> Put(cache, cache_key, Ref(p, slide, k))]
        ELSE [ref |-> NoRef, cache |-> cache]

\* _find_table_by_name without the has_table test
FindTableByName_AnyShape(h, p, cache, slide_index, table_name) ==
    LET cache_key == <<slide_index, table_name>>
        slide == GetSlide(h, p, slide_index)
        k == FirstIndex(h[p][slide], table_name, FALSE)
    IN  IF cache_key \in DOMAIN cache THEN [ref |-> cache[cache_key], cache |-> cache]
        ELSE IF slide = 0 THEN [ref |-> NoRef, cache |-> cache]
        ELSE IF k # 0 THEN [ref |-> Ref(p, slide, k), cache |-> Put(cache, cache_key, Ref(p, slide, k))]
        ELSE [ref |-> NoRef, cache |-> cache]

\* _find_table_by_name: as above, for the table of the first shape of that name
\* that has one
FindTableByName(h, p, cache, slide_index, table_name) ==
    LET cache_key == <<slide_index, table_name>>
        slide == GetSlide(h, p, slide_index)
        k == FirstIndex(h[p][slide], table_name, TRUE)
    IN  IF cache_key \in DOMAIN cache THEN [ref |-> cache[cache_key], cache |-> cache]
        ELSE IF slide = 0 THEN [ref |-> NoRef, cache |-> cache]
        ELSE IF k # 0 THEN [ref |-> Ref(p, slide, k), cache |-> Put(cache, cache_key, Ref(p, slide, k))]
        ELSE [ref |-> NoRef, cache |-> cache]

----------------------------------------------------------------------------
(* PowerPointBridge: text replacement *)

\* font_color as captured from the first run: the RGB value when the colour has
\* one; None when it has none or when reading it raises (a theme colour)
CapturedColor(font) == IF font.color.t = "str" THEN font.color ELSE PyNone

\* the pieces of a text between its line feeds, line being the piece read so far
RECURSIVE SplitLines(_, _)
SplitLines(s, line) ==
    IF s = "" THEN <<line>>
    ELSE IF Head(s) = "\n" THEN <<line>> \o SplitLines(Tail(s), "")
    ELSE SplitLines(Tail(s), line \o Head(s))

\* the runs that the setter of paragraph.text makes of the lines: one a:r for
\* each line that is not empty
RECURSIVE LineRuns(_)
LineRuns(lines) ==
    IF lines = <<>> THEN <<>>
    ELSE (IF Head(lines) = "" THEN <<>> ELSE <<Run(Head(lines), DefaultFont)>>) \o LineRuns(Tail(lines))

\* paragraph.text = text: the content is cleared, every line feed becomes an
\* a:br and the text between line feeds an a:r
ParagraphOfLines(lines) == [runs |-> LineRuns(lines), breaks |-> Len(lines) - 1]
ParagraphOfText(text) == ParagraphOfLines(SplitLines(text, ""))

\* text_frame.text = text (and cell.text = text): one paragraph for each line
FrameOfLines(lines) == [i \in 1..Len(lines) |-> ParagraphOfLines(<<lines[i]>>)]
FrameOfText(text) == FrameOfLines(SplitLines(text, ""))

\* the paragraphs of a shape's text frame after the replacement of
\* update_shape_text (lines 98-128)
ShapeTextReplaced(paragraphs, new_text) ==
    IF paragraphs # <<>>
    THEN LET first_para == paragraphs[1] IN
         IF first_para.runs # <<>>
         THEN LET f == first_para.runs[1].font
                  font_color == CapturedColor(f)
                  run == Run(new_text,
                             Font(IF Truthy(f.name) THEN f.name ELSE PyNone,
                                  IF Truthy(f.size) THEN f.size ELSE PyNone,
                                  IF f.bold # PyNone THEN f.bold ELSE PyNone,
                                  IF f.italic # PyNone THEN f.italic ELSE PyNone,
                                  IF Truthy(font_color) THEN font_color ELSE PyNone))
              IN  [paragraphs EXCEPT ![1] = Para(<<run>>)]
         ELSE \* first_para.text = new_text
              [paragraphs EXCEPT ![1] = ParagraphOfText(new_text)]
    ELSE \* text_frame.text = new_text
         FrameOfText(new_text)

\* the paragraphs of a cell's text frame after the replacement of
\* update_table_cell (lines 145-172): italic is not captured
CellTextReplaced(paragraphs, new_text) ==
    IF paragraphs # <<>>
    THEN LET first_para == paragraphs[1] IN
         IF first_para.runs # <<>>
         THEN LET f == first_para.runs[1].font
                  font_color == CapturedColor(f)
                  run == Run(new_text,
                             Font(IF Truthy(f.name) THEN f.name ELSE PyNone,
                                  IF Truthy(f.size) THEN f.size ELSE PyNone,
                                  IF f.bold # PyNone THEN f.bold ELSE PyNone,
                                  PyNone,
                                  IF Truthy(font_color) THEN font_color ELSE PyNone))
              IN  [paragraphs EXCEPT ![1] = Para(<<run>>)]
         ELSE [paragraphs EXCEPT ![1] = ParagraphOfText(new_text)]
    ELSE \* cell.text = new_text
         FrameOfText(new_text)

\* update_shape_text without the has_text_frame test
UpdateShapeText_NoTextCheck(h, p, cache, slide_index, shape_name, new_text) ==
    LET found == FindShapeByName(h, p, cache, slide_index, shape_name)
        r == found.ref
        shape == Deref(h, r)
    IN  IF r = NoRef
        THEN [heap |-> h, cache |-> found.cache, ok |-> FALSE,
              msg |-> "Shape '" \o shape_name \o "' not found on slide " \o ToString(slide_index)]
        ELSE [heap |-> [h EXCEPT ![r.pres][r.slide][r.shape].paragraphs =
                                    ShapeTextReplaced(shape.paragraphs, new_text)],
              cache |-> found.cache, ok |-> TRUE,
              msg |-> "Updated shape '" \o shape_name \o "' on slide " \o ToString(slide_index)]

\* update_shape_text: [heap, cache, ok, msg]
UpdateShapeText(h, p, cache, slide_index, shape_name, new_text) ==
    LET found == FindShapeByName(h, p, cache, slide_index, shape_name)
        r == found.ref
        shape == Deref(h, r)
    IN  IF r = NoRef
        THEN [heap |-> h, cache |-> found.cache, ok |-> FALSE,
              msg |-> "Shape '" \o shape_name \o "' not found on slide " \o ToString(slide_index)]
        ELSE IF ~shape.has_text_frame
        THEN [heap |-> h, cache |-> found.cache, ok |-> FALSE,
              msg |-> "Shape '" \o shape_name \o "' does not contain text"]
        ELSE [heap |-> [h EXCEPT ![r.pres][r.slide][r.shape].paragraphs =
                                    ShapeTextReplaced(shape.paragraphs, new_text)],
              cache |-> found.cache, ok |-> TRUE,
              msg |-> "Updated shape '" \o shape_name \o "' on slide " \o ToString(slide_index)]

\* update_table_cell without the tests for an index below 0: a negative index
\* counts from the end, as Python indexing does
UpdateTableCell_NoLowerCheck(h, p, cache, slide_index, table_name, row, col, new_text) ==
    LET found == FindTableByName(h, p, cache, slide_index, table_name)
        r == found.ref
        table == Deref(h, r).table
        row_idx == IF row - 1 < 0 THEN Len(table.rows) + (row - 1) ELSE row - 1
        col_idx == IF col - 1 < 0 THEN table.ncols + (col - 1) ELSE col - 1
    IN  IF r = NoRef
        THEN [heap |-> h, cache |-> found.cache, ok |-> FALSE,
              msg |-> "Table '" \o table_name \o "' not found on slide " \o ToString(slide_index)]
        ELSE IF row_idx >= Len(table.rows)
        THEN [heap |-> h, cache |-> found.cache, ok |-> FALSE,
              msg |-> "Row " \o ToString(row) \o " out of range"]
        ELSE IF col_idx >= table.ncols
        THEN [heap |-> h, cache |-> found.cache, ok |-> FALSE,
              msg |-> "Column " \o ToString(col) \o " out of range"]
        ELSE [heap |-> [h EXCEPT ![r.pres][r.slide][r.shape].table.rows[row_idx + 1][col_idx + 1].paragraphs =
                                    CellTextReplaced(table.rows[row_idx + 1][col_idx + 1].paragraphs, new_text)],
              cache |-> found.cache, ok |-> TRUE,
              msg |-> "Updated cell (" \o ToString(row) \o "," \o ToString(col) \o ") in '" \o table_name \o "'"]

\* update_table_cell that writes the text into every cell of the row
UpdateTableCell_WholeRow(h, p, cache, slide_index, table_name, row, col, new_text) ==
    LET found == FindTableByName(h, p, cache, slide_index, table_name)
        r == found.ref
        table == Deref(h, r).table
        row_idx == row - 1
        col_idx == col - 1
    IN  IF r = NoRef
        THEN [heap |-> h, cache |-> found.cache, ok |-> FALSE,
              msg |-> "Table '" \o table_name \o "' not found on slide " \o ToString(slide_index)]
        ELSE IF row_idx < 0 \/ row_idx >= Len(table.rows)
        THEN [heap |-> h, cache |-> found.cache, ok |-> FALSE,
              msg |-> "Row " \o ToString(row) \o " out of range"]
        ELSE IF col_idx < 0 \/ col_idx >= table.ncols
        THEN [heap |-> h, cache |-> found.cache, ok |-> FALSE,
              msg |-> "Column " \o ToString(col) \o " out of range"]
        ELSE [heap |-> [h EXCEPT ![r.pres][r.slide][r.shape].table.rows[row_idx + 1] =
                                    [c \in 1..table.ncols |->
                                        Cell(CellTextReplaced(table.rows[row_idx + 1][c].paragraphs, new_text))]],
              cache |-> found.cache, ok |-> TRUE,
              msg |-> "Updated cell (" \o ToString(row) \o "," \o ToString(col) \o ") in '" \o table_name \o "'"]

\* update_table_cell: [heap, cache, ok, msg]
UpdateTableCell(h, p, cache, slide_index, table_name, row, col, new_text) ==
    LET found == FindTableByName(h, p, cache, slide_index, table_name)
        r == found.ref
        table == Deref(h, r).table
        row_idx == row - 1
        col_idx == col - 1
    IN  IF r = NoRef
        THEN [heap |-> h, cache |-> found.cache, ok |-> FALSE,
              msg |-> "Table '" \o table_name \o "' not found on slide " \o ToString(slide_index)]
        ELSE IF row_idx < 0 \/ row_idx >= Len(table.rows)
        THEN [heap |-> h, cache |-> found.cache, ok |-> FALSE,
              msg |-> "Row " \o ToString(row) \o " out of range"]
        ELSE IF col_idx < 0 \/ col_idx >= table.ncols
        THEN [heap |-> h, cache |-> found.cache, ok |-> FALSE,
              msg |-> "Column " \o ToString(col) \o " out of range"]
        ELSE [heap |-> [h EXCEPT ![r.pres][r.slide][r.shape].table.rows[row_idx + 1][col_idx + 1].paragraphs =
                                    CellTextReplaced(table.rows[row_idx + 1][col_idx + 1].paragraphs, new_text)],
              cache |-> found.cache, ok |-> TRUE,
              msg |-> "Updated cell (" \o ToString(row) \o "," \o ToString(col) \o ") in '" \o table_name \o "'"]

\* The statement of the replacement at which an exception is raised, when one
\* is: run.text = new_text (line 114) or run.font.size = font_size (line 118);
\* "none" when every statement returns.
FaultPoints == {"none", "text", "size"}

\* whether the replacement of the first paragraph reaches the statement
FaultReached(paragraphs, fault) ==
    /\ paragraphs # <<>>
    /\ paragraphs[1].runs # <<>>
    /\ \/ fault = "text"
       \/ fault = "size" /\ Truthy(paragraphs[1].runs[1].font.size)

\* the paragraphs when the statement raises: first_para.clear() and add_run()
\* are done, and at "size" so are run.text = new_text and the font name
TextFaulted(paragraphs, new_text, fault) ==
    LET f == paragraphs[1].runs[1].font
        run == IF fault = "text" THEN Run("", DefaultFont)
               ELSE Run(new_text, Font(IF Truthy(f.name) THEN f.name ELSE PyNone,
                                       PyNone, PyNone, PyNone, PyNone))
    IN  [paragraphs EXCEPT ![1] = Para(<<run>>)]

\* update_shape_text with the exception: the except clause (lines 130-132)
\* returns (False, str(e)) and undoes nothing
UpdateShapeTextFault(h, p, cache, slide_index, shape_name, new_text, fault) ==
    LET found == FindShapeByName(h, p, cache, slide_index, shape_name)
        r == found.ref
        shape == Deref(h, r)
    IN  IF r # NoRef /\ shape.has_text_frame /\ FaultReached(shape.paragraphs, fault)
        THEN [heap |-> [h EXCEPT ![r.pres][r.slide][r.shape].paragraphs =
                                    TextFaulted(shape.paragraphs, new_text, fault)],
              cache |-> found.cache, ok |-> FALSE, msg |-> "exception at " \o fault]
        ELSE UpdateShapeText(h, p, cache, slide_index, shape_name, new_text)

\* update_table_cell with the exception (lines 158-175)
UpdateTableCellFault(h, p, cache, slide_index, table_name, row, col, new_text, fault) ==
    LET found == FindTableByName(h, p, cache, slide_index, table_name)
        r == found.ref
        table == Deref(h, r).table
    IN  IF /\ r # NoRef
           /\ row \in 1..Len(table.rows) /\ col \in 1..table.ncols
           /\ FaultReached(table.rows[row][col].paragraphs, fault)
        THEN [heap |-> [h EXCEPT ![r.pres][r.slide][r.shape].table.rows[row][col].paragraphs =
                                    TextFaulted(table.rows[row][col].paragraphs, new_text, fault)],
              cache |-> found.cache, ok |-> FALSE, msg |-> "exception at " \o fault]
        ELSE UpdateTableCell(h, p, cache, slide_index, table_name, row, col, new_text)

----------------------------------------------------------------------------
(* PowerPointBridge: open and save *)

\* open(): [heap, presentation, ok]; the caches are not touched.
\* parse_ok: whether Presentation(path) reads the file without raising
BridgeOpen(h, p, file, parse_ok) ==
    IF ~file.exists THEN [heap |-> h, presentation |-> p, ok |-> FALSE]
    ELSE IF ~parse_ok THEN [heap |-> h, presentation |-> p, ok |-> FALSE]
    ELSE [heap |-> Append(h, file.doc), presentation |-> Len(h) + 1, ok |-> TRUE]

\* save(): [disk, ok]. write_ok: whether presentation.save(path) returns
\* without raising; with no presentation the call on None raises
BridgeSave(h, p, file, write_ok) ==
    IF p = 0 \/ ~write_ok THEN [disk |-> file, ok |-> FALSE]
    ELSE [disk |-> [exists |-> TRUE, doc |-> h[p]], ok |-> TRUE]

----------------------------------------------------------------------------
(* A bridge session: the methods of one PowerPointBridge called in any order,
   as test_powerpoint_bridge.py does *)

NameArgs == {"Title", "Logo", "Blank", "Tbl", "Ghost"}
TableNameArgs == {"Tbl", "Title", "Ghost"}
TextArgs == {"New", "Sub"}
IndexArgs == 0..MaxIndex

NoCall == [op |-> "none", slide_index |-> 0, name |-> "", row |-> 0, col |-> 0,
           text |-> "", pre |-> <<>>, ok |-> FALSE, msg |-> ""]

NoFile == [exists |-> FALSE, doc |-> <<>>]

\* no call of format_value is being followed
NoFormat == [raw_value |-> PyNone, fmt |-> "", prefix |-> "", suffix |-> "", empty_value |-> "",
             done |-> FALSE, result |-> ""]

\* no call of from_row or read_mapping is being followed
NoRows == [values |-> <<>>, op |-> "", raised |-> FALSE, result |-> <<>>]

\* the variables of main() before a run (and in a bridge session, which has none)
MainIdle ==
    /\ pc = "start"
    /\ exit_code = -1
    /\ dry_run = FALSE
    /\ empty_value = ""
    /\ sheet_rows = <<>>
    /\ mappings = <<>>
    /\ ranges = <<>>
    /\ values_by_range = [k \in {} |-> PyNone]
    /\ idx = 0
    /\ success_count = 0
    /\ error_count = 0
    /\ errors = <<>>
    /\ outcomes = <<>>
    /\ trace = <<>>
    /\ opened = <<>>
    /\ format_call = NoFormat
    /\ row_call = NoRows

BInit ==
    /\ heap = <<>>
    /\ presentation = 0
    /\ shape_cache = EmptyDict
    /\ table_cache = EmptyDict
    /\ disk \in {[exists |-> TRUE, doc |-> d] : d \in Decks} \cup {NoFile}
    /\ calls = 0
    /\ last = NoCall
    /\ MainIdle

BOpen ==
    /\ calls < MaxCalls
    /\ \E parse_ok \in BOOLEAN :
         LET res == BridgeOpen(heap, presentation, disk, parse_ok) IN
         /\ heap' = res.heap
         /\ presentation' = res.presentation
         /\ last' = [NoCall EXCEPT !.op = "open", !.pre = heap, !.ok = res.ok]
    /\ calls' = calls + 1
    /\ UNCHANGED <<shape_cache, table_cache, disk>>
    /\ UNCHANGED <<mainVars, format_call, row_call>>

BSave ==
    /\ calls < MaxCalls
    /\ \E write_ok \in BOOLEAN :
         LET res == BridgeSave(heap, presentation, disk, write_ok) IN
         /\ disk' = res.disk
         /\ last' = [NoCall EXCEPT !.op = "save", !.pre = heap, !.ok = res.ok]
    /\ calls' = calls + 1
    /\ UNCHANGED <<heap, presentation, shape_cache, table_cache>>
    /\ UNCHANGED <<mainVars, format_call, row_call>>

BUpdateShapeText ==
    /\ calls < MaxCalls
    /\ \E slide_index \in IndexArgs, shape_name \in NameArgs, new_text \in TextArgs :
         LET res == UpdateShapeText(heap, presentation, shape_cache, slide_index, shape_name, new_text) IN
         /\ heap' = res.heap
         /\ shape_cache' = res.cache
         /\ last' = [op |-> "update_shape_text", slide_index |-> slide_index, name |-> shape_name,
                     row |-> 0, col |-> 0, text |-> new_text, pre |-> heap,
                     ok |-> res.ok, msg |-> res.msg]
    /\ calls' = calls + 1
    /\ UNCHANGED <<presentation, table_cache, disk>>
    /\ UNCHANGED <<mainVars, format_call, row_call>>

BUpdateTableCell ==
    /\ calls < MaxCalls
    /\ \E slide_index \in IndexArgs, table_name \in TableNameArgs, row \in IndexArgs, col \in IndexArgs,
          new_text \in TextArgs :
         LET res == UpdateTableCell(heap, presentation, table_cache, slide_index, table_name, row, col, new_text) IN
         /\ heap' = res.heap
         /\ table_cache' = res.cache
         /\ last' = [op |-> "update_table_cell", slide_index |-> slide_index, name |-> table_name,
                     row |-> row, col |-> col, text |-> new_text, pre |-> heap,
                     ok |-> res.ok, msg |-> res.msg]
    /\ calls' = calls + 1
    /\ UNCHANGED <<presentation, shape_cache, disk>>
    /\ UNCHANGED <<mainVars, format_call, row_call>>

BNext == BOpen \/ BSave \/ BUpdateShapeText \/ BUpdateTableCell

SpecBridge == BInit /\ [][BNext]_vars

----------------------------------------------------------------------------
(* A longer bridge session on few targets: calls repeated on one target, and
   the presentation opened again, as a caller that keeps one PowerPointBridge
   for several files does *)

\* a long session makes at most MaxSession calls
MaxSession == 4

\* the shapes a long session updates: (slide_index, shape_name)
SessionShapes == {<<1, "Title">>, <<1, "Blank">>, <<2, "Tbl">>}
SessionTables == {"Tbl"}
SessionTexts == {"New", "Up\nDown"}
SessionCols == {1, 2}

\* what a call was: the operation and its arguments
Signature(c) == [op |-> c.op, slide_index |-> c.slide_index, name |-> c.name,
                 row |-> c.row, col |-> c.col, text |-> c.text]

\* the call before the one being made: what it was and what it returned
Previous == [call |-> Signature(last), ok |-> last.ok, msg |-> last.msg]

SInit ==
    /\ heap = <<>>
    /\ presentation = 0
    /\ shape_cache = EmptyDict
    /\ table_cache = EmptyDict
    /\ disk \in {[exists |-> TRUE, doc |-> d] : d \in Decks}
    /\ calls = 0
    /\ last = NoCall
    /\ MainIdle

SOpen ==
    /\ calls < MaxSession
    /\ \E res \in {BridgeOpen(heap, presentation, disk, TRUE)} :
         /\ heap' = res.heap
         /\ presentation' = res.presentation
         /\ last' = [op |-> "open", slide_index |-> 0, name |-> "", row |-> 0, col |-> 0,
                     text |-> "", pre |-> heap, ok |-> res.ok, msg |-> "", prev |-> Previous]
    /\ calls' = calls + 1
    /\ UNCHANGED <<shape_cache, table_cache, disk>>
    /\ UNCHANGED <<mainVars, format_call, row_call>>

SSave ==
    /\ calls < MaxSession
    /\ \E res \in {BridgeSave(heap, presentation, disk, TRUE)} :
         /\ disk' = res.disk
         /\ last' = [op |-> "save", slide_index |-> 0, name |-> "", row |-> 0, col |-> 0,
                     text |-> "", pre |-> heap, ok |-> res.ok, msg |-> "", prev |-> Previous]
    /\ calls' = calls + 1
    /\ UNCHANGED <<heap, presentation, shape_cache, table_cache>>
    /\ UNCHANGED <<mainVars, format_call, row_call>>

SUpdateShapeText ==
    /\ calls < MaxSession
    /\ \E target \in SessionShapes, new_text \in SessionTexts :
       \E res \in {UpdateShapeText(heap, presentation, shape_cache, target[1], target[2], new_text)} :
         /\ heap' = res.heap
         /\ shape_cache' = res.cache
         /\ last' = [op |-> "update_shape_text", slide_index |-> target[1], name |-> target[2],
                     row |-> 0, col |-> 0, text |-> new_text, pre |-> heap,
                     ok |-> res.ok, msg |-> res.msg, prev |-> Previous]
    /\ calls' = calls + 1
    /\ UNCHANGED <<presentation, table_cache, disk>>
    /\ UNCHANGED <<mainVars, format_call, row_call>>

SUpdateTableCell ==
    /\ calls < MaxSession
    /\ \E table_name \in SessionTables, col \in SessionCols, new_text \in SessionTexts :
       \E res \in {UpdateTableCell(heap, presentation, table_cache, 2, table_name, 2, col, new_text)} :
         /\ heap' = res.heap
         /\ table_cache' = res.cache
         /\ last' = [op |-> "update_table_cell", slide_index |-> 2, name |-> table_name,
                     row |-> 2, col |-> col, text |-> new_text, pre |-> heap,
                     ok |-> res.ok, msg |-> res.msg, prev |-> Previous]
    /\ calls' = calls + 1
    /\ UNCHANGED <<presentation, shape_cache, disk>>
    /\ UNCHANGED <<mainVars, format_call, row_call>>

SNext == SOpen \/ SSave \/ SUpdateShapeText \/ SUpdateTableCell

SpecSession == SInit /\ [][SNext]_vars

----------------------------------------------------------------------------
(* Calls of format_value, on the values a sheet cell can hold: as
   test_format_value_integration makes them *)

RawStrings ==
    {"", "  ", " \t\n", "abc", "0", "1", "-1", "0.325", "42", "-0.004", "1,234.5", "7500000",
     "(500)", "($1,234.5)", "(-500)", "( 12 )", "5%", "inf", "-Infinity", "nan",
     "2021-04-01", "04/01/2021", "13/04/2021", "2021-02-30", "April 1, 2021", "10"}

RawInts == {0, 1, -1, 10, 21, 42, -500, 1850, 7500000, 59, 60, 61, 36585, 44286, 44287, 44317, 2958465, 2958466,
            -693593, -693594}

RawFloats ==
    {Num(FALSE, 325, 3), Num(FALSE, 420, 1), Num(FALSE, 10, 1), Num(TRUE, 10, 1), Num(FALSE, 0, 1),
     Num(TRUE, 0, 1), Num(TRUE, 5, 1), Num(FALSE, 125, 2), Num(TRUE, 123456, 2), Num(FALSE, 4428775, 2),
     Infinity(FALSE), Infinity(TRUE), NaN}

\* the serial numbers around that of test_format_value_integration
RawSerials == (44287 - SerialSpan)..(44287 + SerialSpan)

RawValues ==
    {PyNone, PyBool(TRUE)} \cup {PyStr(text) : text \in RawStrings}
      \cup {PyInt(n) : n \in RawInts \cup RawSerials}
      \cup {PyFloat(x) : x \in RawFloats}

FormatCodes ==
    {"currency0", "currency1", "currency2", "percent0", "percent1", "percent2", "integer",
     "decimal1", "decimal2", "date_mdy", "date_short", "text_number", "text",
     "", " Currency0 ", "PERCENT1", "bogus"}

Affixes == {"", "~"}
Prefixes == Affixes \cup {"Total: "}
EmptyValues == {"", "n/a"}

FInit ==
    /\ heap = <<>>
    /\ presentation = 0
    /\ shape_cache = EmptyDict
    /\ table_cache = EmptyDict
    /\ disk = NoFile
    /\ calls = 0
    /\ last = NoCall
    /\ pc = "start"
    /\ exit_code = -1
    /\ dry_run = FALSE
    /\ empty_value = ""
    /\ sheet_rows = <<>>
    /\ mappings = <<>>
    /\ ranges = <<>>
    /\ values_by_range = [k \in {} |-> PyNone]
    /\ idx = 0
    /\ success_count = 0
    /\ error_count = 0
    /\ errors = <<>>
    /\ outcomes = <<>>
    /\ trace = <<>>
    /\ opened = <<>>
    /\ format_call \in [raw_value : RawValues, fmt : FormatCodes, prefix : Prefixes, suffix : Affixes,
                        empty_value : EmptyValues, done : {FALSE}, result : {""}]
    /\ row_call = NoRows

\* the call is made
FormatValue ==
    /\ ~format_call.done
    /\ \E res \in {format_value(format_call.raw_value, format_call.fmt, format_call.prefix,
                                format_call.suffix, format_call.empty_value)} :
          format_call' = [format_call EXCEPT !.done = TRUE, !.result = res]
    /\ UNCHANGED <<bridgeVars, sessionVars, mainVars, row_call>>

FNext == FormatValue

SpecFormat == FInit /\ [][FNext]_vars

----------------------------------------------------------------------------
(* update_presentation.py *)

\* the (success, message) of process_mapping with the document and the caches it
\* leaves, and the bridge method it called ("" when none)
Unapplied(h, sc, tc, ok, msg) ==
    [heap |-> h, shape_cache |-> sc, table_cache |-> tc, ok |-> ok, msg |-> msg, called |-> ""]

ShapeApplied(res, tc) ==
    [heap |-> res.heap, shape_cache |-> res.cache, table_cache |-> tc,
     ok |-> res.ok, msg |-> res.msg, called |-> "update_shape_text"]

CellApplied(res, sc) ==
    [heap |-> res.heap, shape_cache |-> sc, table_cache |-> res.cache,
     ok |-> res.ok, msg |-> res.msg, called |-> "update_table_cell"]

\* process_mapping that leaves a shape it has looked up before as it is, and
\* reports the update as done
ApplyMapping_FirstWriteStays(h, p, sc, tc, mapping, formatted_text, dry) ==
    IF dry THEN Unapplied(h, sc, tc, TRUE, "Dry run - no changes made")
    ELSE IF mapping.target_type = "shape"
    THEN IF <<mapping.slide_index, mapping.object_name>> \in DOMAIN sc
         THEN [heap |-> h, shape_cache |-> sc, table_cache |-> tc, ok |-> TRUE, msg |-> "",
               called |-> "update_shape_text"]
         ELSE ShapeApplied(UpdateShapeText(h, p, sc, mapping.slide_index, mapping.object_name,
                                           formatted_text), tc)
    ELSE IF mapping.target_type = "table_cell"
    THEN IF mapping.row = PyNone \/ mapping.col = PyNone
         THEN Unapplied(h, sc, tc, FALSE,
                        "Table cell mapping '" \o mapping.id \o "' is missing row or col index")
         ELSE CellApplied(UpdateTableCell(h, p, tc, mapping.slide_index, mapping.object_name,
                                          mapping.row.v, mapping.col.v, formatted_text), sc)
    ELSE Unapplied(h, sc, tc, FALSE,
                   "Unknown target type '" \o mapping.target_type \o "' for mapping '" \o mapping.id \o "'")

\* process_mapping with every target type but table_cell taken as a shape
ApplyMapping_UnknownAsShape(h, p, sc, tc, mapping, formatted_text, dry) ==
    IF dry THEN Unapplied(h, sc, tc, TRUE, "Dry run - no changes made")
    ELSE IF mapping.target_type = "table_cell"
    THEN IF mapping.row = PyNone \/ mapping.col = PyNone
         THEN Unapplied(h, sc, tc, FALSE,
                        "Table cell mapping '" \o mapping.id \o "' is missing row or col index")
         ELSE CellApplied(UpdateTableCell(h, p, tc, mapping.slide_index, mapping.object_name,
                                          mapping.row.v, mapping.col.v, formatted_text), sc)
    ELSE ShapeApplied(UpdateShapeText(h, p, sc, mapping.slide_index, mapping.object_name, formatted_text), tc)

\* process_mapping from the dry-run test on, formatted_text being computed
ApplyMapping(h, p, sc, tc, mapping, formatted_text, dry) ==
    IF dry THEN Unapplied(h, sc, tc, TRUE, "Dry run - no changes made")
    ELSE IF mapping.target_type = "shape"
    THEN ShapeApplied(UpdateShapeText(h, p, sc, mapping.slide_index, mapping.object_name, formatted_text), tc)
    ELSE IF mapping.target_type = "table_cell"
    THEN IF mapping.row = PyNone \/ mapping.col = PyNone
         THEN Unapplied(h, sc, tc, FALSE,
                        "Table cell mapping '" \o mapping.id \o "' is missing row or col index")
         ELSE CellApplied(UpdateTableCell(h, p, tc, mapping.slide_index, mapping.object_name,
                                          mapping.row.v, mapping.col.v, formatted_text), sc)
    ELSE Unapplied(h, sc, tc, FALSE,
                   "Unknown target type '" \o mapping.target_type \o "' for mapping '" \o mapping.id \o "'")

\* process_mapping without the dry-run return
process_mapping_IgnoresDryRun(h, p, sc, tc, mapping, value, empty, dry) ==
    ApplyMapping(h, p, sc, tc, mapping,
                 format_value(value, mapping.format, mapping.prefix, mapping.suffix, empty), FALSE)

\* process_mapping
process_mapping(h, p, sc, tc, mapping, value, empty, dry) ==
    ApplyMapping(h, p, sc, tc, mapping,
                 format_value(value, mapping.format, mapping.prefix, mapping.suffix, empty), dry)

\* the mapping sheet rows the runs of the model are given
RowOf(cells) == [i \in 1..Len(cells) |-> PyStr(cells[i])]

SampleRows ==
    { RowOf(<<"title", "B1", "1", "shape", "Title">>),
      RowOf(<<"head", "B2", "1", "shape", "Title", "", "", "integer">>),
      RowOf(<<"total", "B2", "2", "Table_Cell", "Tbl", "1", "2", "integer", "Total: ">>),
      RowOf(<<"norow", "B2", "2", "table_cell", "Tbl", "", "2", "currency0">>),
      RowOf(<<"chart", "B3", "1", "chart", "Title">>),
      RowOf(<<"ghost", "B1", "3", "shape", "Title", "", "", "text", "", "!">>),
      RowOf(<<"logo", "B3", "1", "shape", "Logo">>),
      RowOf(<<"note", "", "1", "shape", "Title">>),
      RowOf(<<"", "">>) }

\* the first cells of the ranges of the value sheet that are not empty
SampleSheet == [B1 |-> PyStr("Q1 2025"), B2 |-> PyStr("1850")]

SeqsUpTo(S, n) == UNION {[1..k -> S] : k \in 0..n}

Event(ev, keys, ok) == [ev |-> ev, keys |-> keys, ok |-> ok]

Init ==
    /\ heap = <<>>
    /\ presentation = 0
    /\ shape_cache = EmptyDict
    /\ table_cache = EmptyDict
    /\ disk \in {[exists |-> TRUE, doc |-> SampleDeck], NoFile}
    /\ calls = 0
    /\ last = NoCall
    /\ pc = "start"
    /\ exit_code = -1
    /\ dry_run \in BOOLEAN
    /\ empty_value \in {"", "n/a"}
    /\ sheet_rows \in SeqsUpTo(SampleRows, MaxRows)
    /\ mappings = <<>>
    /\ ranges = <<>>
    /\ values_by_range = [k \in {} |-> PyNone]
    /\ idx = 0
    /\ success_count = 0
    /\ error_count = 0
    /\ errors = <<>>
    /\ outcomes = <<>>
    /\ trace = <<>>
    /\ opened = <<>>
    /\ format_call = NoFormat
    /\ row_call = NoRows

\* sys.exit(code) before the loop
Exit(code) ==
    /\ pc' = "exit"
    /\ exit_code' = code

\* main, lines 140-183: load the configuration, find the presentation file
LoadConfig ==
    /\ pc = "start"
    /\ \E config_ok \in BOOLEAN :
         IF ~config_ok \/ ~disk.exists THEN Exit(1)
         ELSE pc' = "open" /\ UNCHANGED exit_code
    /\ UNCHANGED <<bridgeVars, sessionVars, format_call, row_call, dry_run, empty_value, sheet_rows, mappings, ranges,
                   values_by_range, idx, success_count, error_count, errors, outcomes, trace, opened>>

\* main, lines 154-174: --list-shapes / --list-tables
ListCommand ==
    /\ pc = "start"
    /\ \E parse_ok \in BOOLEAN :
         LET res == BridgeOpen(heap, presentation, disk, parse_ok) IN
         /\ heap' = res.heap
         /\ presentation' = res.presentation
         /\ Exit(IF res.ok THEN 0 ELSE 1)
    /\ UNCHANGED <<shape_cache, table_cache, disk, sessionVars, format_call, row_call, dry_run, empty_value, sheet_rows,
                   mappings, ranges, values_by_range, idx, success_count, error_count, errors,
                   outcomes, trace, opened>>

\* main, lines 185-191: open the presentation
OpenPresentation ==
    /\ pc = "open"
    /\ \E parse_ok \in BOOLEAN :
         LET res == BridgeOpen(heap, presentation, disk, parse_ok) IN
         /\ heap' = res.heap
         /\ presentation' = res.presentation
         /\ trace' = Append(trace, Event("open", <<>>, res.ok))
         /\ IF res.ok
            THEN pc' = "client" /\ opened' = res.heap[res.presentation] /\ UNCHANGED exit_code
            ELSE Exit(1) /\ UNCHANGED opened
    /\ UNCHANGED <<shape_cache, table_cache, disk, sessionVars, format_call, row_call, dry_run, empty_value, sheet_rows,
                   mappings, ranges, values_by_range, idx, success_count, error_count, errors,
                   outcomes>>

\* main, lines 193-199: create_client
CreateClient ==
    /\ pc = "client"
    /\ \E client_ok \in BOOLEAN :
         IF client_ok THEN pc' = "read" /\ UNCHANGED exit_code ELSE Exit(1)
    /\ UNCHANGED <<bridgeVars, sessionVars, format_call, row_call, dry_run, empty_value, sheet_rows, mappings, ranges,
                   values_by_range, idx, success_count, error_count, errors, outcomes, trace, opened>>

\* the read whose empty result ends the run as a failure
ReadMapping_EmptyIsError ==
    /\ pc = "read"
    /\ \E api_ok \in BOOLEAN :
         /\ trace' = Append(trace, Event("read_mapping", <<>>, api_ok))
         /\ IF ~api_ok THEN Exit(1) /\ UNCHANGED mappings
            ELSE /\ mappings' = read_mapping(sheet_rows)
                 /\ IF mappings' = <<>> THEN Exit(1) ELSE pc' = "ranges" /\ UNCHANGED exit_code
    /\ UNCHANGED <<bridgeVars, sessionVars, format_call, row_call, dry_run, empty_value, sheet_rows, ranges,
                   values_by_range, idx, success_count, error_count, errors, outcomes, opened>>

\* main, lines 201-210: read the mappings
ReadMapping ==
    /\ pc = "read"
    /\ \E api_ok \in BOOLEAN :
         /\ trace' = Append(trace, Event("read_mapping", <<>>, api_ok))
         /\ IF ~api_ok THEN Exit(1) /\ UNCHANGED mappings
            ELSE /\ mappings' = read_mapping(sheet_rows)
                 /\ IF mappings' = <<>> THEN Exit(0) ELSE pc' = "ranges" /\ UNCHANGED exit_code
    /\ UNCHANGED <<bridgeVars, sessionVars, format_call, row_call, dry_run, empty_value, sheet_rows, ranges,
                   values_by_range, idx, success_count, error_count, errors, outcomes, opened>>

\* the ranges as a plain list comprehension: no set(), a key once per mapping
RECURSIVE UniqueRanges_NoDedup(_)
UniqueRanges_NoDedup(ms) ==
    IF ms = <<>> THEN <<>>
    ELSE (IF Head(ms).sheet_range # "" THEN <<Head(ms).sheet_range>> ELSE <<>>)
           \o UniqueRanges_NoDedup(Tail(ms))

\* main, line 213
UniqueRanges(ms) == SortedSeq({ms[i].sheet_range : i \in {j \in 1..Len(ms) : ms[j].sheet_range # ""}})

\* main, lines 212-216: the ranges to fetch
CollectRanges ==
    /\ pc = "ranges"
    /\ ranges' = UniqueRanges(mappings)
    /\ IF ranges' = <<>> THEN Exit(0) ELSE pc' = "fetch" /\ UNCHANGED exit_code
    /\ UNCHANGED <<bridgeVars, sessionVars, format_call, row_call, dry_run, empty_value, sheet_rows, mappings,
                   values_by_range, idx, success_count, error_count, errors, outcomes, trace, opened>>

\* the batch fetch with its failure swallowed: the loop runs on an empty dict
BatchFetch_IgnoresFailure ==
    /\ pc = "fetch"
    /\ \E api_ok \in BOOLEAN :
         /\ trace' = Append(trace, Event("batch_get_values", ranges, api_ok))
         /\ values_by_range' = IF api_ok THEN batch_get_values(ranges, SampleSheet)
                                ELSE [k \in {} |-> PyNone]
         /\ idx' = 1
         /\ pc' = "applying"
         /\ UNCHANGED exit_code
    /\ UNCHANGED <<bridgeVars, sessionVars, format_call, row_call, dry_run, empty_value, sheet_rows, mappings, ranges,
                   success_count, error_count, errors, outcomes, opened>>

\* main, lines 218-229: the batch fetch, then the counters of the loop
BatchFetch ==
    /\ pc = "fetch"
    /\ \E api_ok \in BOOLEAN :
         /\ trace' = Append(trace, Event("batch_get_values", ranges, api_ok))
         /\ IF ~api_ok THEN Exit(1) /\ UNCHANGED <<values_by_range, idx>>
            ELSE /\ values_by_range' = batch_get_values(ranges, SampleSheet)
                 /\ idx' = 1
                 /\ pc' = "applying"
                 /\ UNCHANGED exit_code
    /\ UNCHANGED <<bridgeVars, sessionVars, format_call, row_call, dry_run, empty_value, sheet_rows, mappings, ranges,
                   success_count, error_count, errors, outcomes, opened>>

\* the loop with a break at the first failed row
ProcessRow_StopsAtFailure ==
    /\ pc = "applying"
    /\ idx <= Len(mappings)
    /\ \E res \in {process_mapping(heap, presentation, shape_cache, table_cache, mappings[idx],
                                   DictGet(values_by_range, mappings[idx].sheet_range),
                                   empty_value, dry_run)} :
          /\ heap' = res.heap
          /\ shape_cache' = res.shape_cache
          /\ table_cache' = res.table_cache
          /\ outcomes' = Append(outcomes, [at |-> idx, called |-> res.called, ok |-> res.ok,
                                           before |-> heap, after |-> res.heap])
          /\ IF res.ok
             THEN success_count' = success_count + 1 /\ UNCHANGED <<error_count, errors>>
             ELSE /\ error_count' = error_count + 1
                  /\ errors' = Append(errors, "Failed to update '" \o mappings[idx].id \o "': " \o res.msg)
                  /\ UNCHANGED success_count
          /\ idx' = IF res.ok THEN idx + 1 ELSE Len(mappings) + 1
    /\ UNCHANGED <<presentation, disk, sessionVars, format_call, row_call, pc, exit_code, dry_run, empty_value, sheet_rows,
                   mappings, ranges, values_by_range, trace, opened>>

\* main, lines 231-242: one iteration of the loop over mappings
ProcessRow ==
    /\ pc = "applying"
    /\ idx <= Len(mappings)
    /\ \E res \in {process_mapping(heap, presentation, shape_cache, table_cache, mappings[idx],
                                   DictGet(values_by_range, mappings[idx].sheet_range),
                                   empty_value, dry_run)} :
          /\ heap' = res.heap
          /\ shape_cache' = res.shape_cache
          /\ table_cache' = res.table_cache
          /\ outcomes' = Append(outcomes, [at |-> idx, called |-> res.called, ok |-> res.ok,
                                           before |-> heap, after |-> res.heap])
          /\ IF res.ok
             THEN success_count' = success_count + 1 /\ UNCHANGED <<error_count, errors>>
             ELSE /\ error_count' = error_count + 1
                  /\ errors' = Append(errors, "Failed to update '" \o mappings[idx].id \o "': " \o res.msg)
                  /\ UNCHANGED success_count
    /\ idx' = idx + 1
    /\ UNCHANGED <<presentation, disk, sessionVars, format_call, row_call, pc, exit_code, dry_run, empty_value, sheet_rows,
                   mappings, ranges, values_by_range, trace, opened>>

\* the save without the test for a successful row
Finish_SavesAlways ==
    /\ pc = "applying"
    /\ idx > Len(mappings)
    /\ IF ~dry_run
       THEN \E write_ok \in BOOLEAN :
              LET res == BridgeSave(heap, presentation, disk, write_ok) IN
              /\ disk' = res.disk
              /\ trace' = Append(trace, Event("save", <<>>, res.ok))
              /\ error_count' = IF res.ok THEN error_count ELSE error_count + 1
       ELSE UNCHANGED <<disk, trace, error_count>>
    /\ pc' = "done"
    /\ exit_code' = IF error_count' = 0 THEN 0 ELSE 1
    /\ UNCHANGED <<heap, presentation, shape_cache, table_cache, sessionVars, format_call, row_call, dry_run, empty_value,
                   sheet_rows, mappings, ranges, values_by_range, idx, success_count, errors,
                   outcomes, opened>>

\* the save whose failure is not counted
Finish_IgnoresSaveFailure ==
    /\ pc = "applying"
    /\ idx > Len(mappings)
    /\ IF ~dry_run /\ success_count > 0
       THEN \E write_ok \in BOOLEAN :
              LET res == BridgeSave(heap, presentation, disk, write_ok) IN
              /\ disk' = res.disk
              /\ trace' = Append(trace, Event("save", <<>>, res.ok))
              /\ error_count' = error_count
       ELSE UNCHANGED <<disk, trace, error_count>>
    /\ pc' = "done"
    /\ exit_code' = IF error_count' = 0 THEN 0 ELSE 1
    /\ UNCHANGED <<heap, presentation, shape_cache, table_cache, sessionVars, format_call, row_call, dry_run, empty_value,
                   sheet_rows, mappings, ranges, values_by_range, idx, success_count, errors,
                   outcomes, opened>>

\* main, lines 244-266: save, summary, exit status
Finish ==
    /\ pc = "applying"
    /\ idx > Len(mappings)
    /\ IF ~dry_run /\ success_count > 0
       THEN \E write_ok \in BOOLEAN :
              LET res == BridgeSave(heap, presentation, disk, write_ok) IN
              /\ disk' = res.disk
              /\ trace' = Append(trace, Event("save", <<>>, res.ok))
              /\ error_count' = IF res.ok THEN error_count ELSE error_count + 1
       ELSE UNCHANGED <<disk, trace, error_count>>
    /\ pc' = "done"
    /\ exit_code' = IF error_count' = 0 THEN 0 ELSE 1
    /\ UNCHANGED <<heap, presentation, shape_cache, table_cache, sessionVars, format_call, row_call, dry_run, empty_value,
                   sheet_rows, mappings, ranges, values_by_range, idx, success_count, errors,
                   outcomes, opened>>

Next ==
    \/ LoadConfig
    \/ ListCommand
    \/ OpenPresentation
    \/ CreateClient
    \/ ReadMapping
    \/ CollectRanges
    \/ BatchFetch
    \/ ProcessRow
    \/ Finish

Spec == Init /\ [][Next]_vars

----------------------------------------------------------------------------
(* A bridge session in which a statement of a text replacement may raise *)

FUpdateShapeText ==
    /\ calls < MaxCalls
    /\ \E slide_index \in 1..2, shape_name \in NameArgs, new_text \in TextArgs, fault \in FaultPoints :
       \E res \in {UpdateShapeTextFault(heap, presentation, shape_cache, slide_index, shape_name,
                                        new_text, fault)} :
         /\ heap' = res.heap
         /\ shape_cache' = res.cache
         /\ last' = [op |-> "update_shape_text", slide_index |-> slide_index, name |-> shape_name,
                     row |-> 0, col |-> 0, text |-> new_text, pre |-> heap,
                     ok |-> res.ok, msg |-> res.msg]
    /\ calls' = calls + 1
    /\ UNCHANGED <<presentation, table_cache, disk>>
    /\ UNCHANGED <<mainVars, format_call, row_call>>

FUpdateTableCell ==
    /\ calls < MaxCalls
    /\ \E slide_index \in 1..2, table_name \in SessionTables, row \in IndexArgs, col \in IndexArgs,
          new_text \in TextArgs, fault \in FaultPoints :
       \E res \in {UpdateTableCellFault(heap, presentation, table_cache, slide_index, table_name,
                                        row, col, new_text, fault)} :
         /\ heap' = res.heap
         /\ table_cache' = res.cache
         /\ last' = [op |-> "update_table_cell", slide_index |-> slide_index, name |-> table_name,
                     row |-> row, col |-> col, text |-> new_text, pre |-> heap,
                     ok |-> res.ok, msg |-> res.msg]
    /\ calls' = calls + 1
    /\ UNCHANGED <<presentation, shape_cache, disk>>
    /\ UNCHANGED <<mainVars, format_call, row_call>>

FaultNext == BOpen \/ FUpdateShapeText \/ FUpdateTableCell

SpecFault == BInit /\ [][FaultNext]_vars

----------------------------------------------------------------------------
(* Calls of MappingRow.from_row on one row of the mapping sheet, of any length
   from 0 to 11 cells, and of read_mapping on the rows the API returned. *)

\* rows of 11 cells: the key, slide, type, row and col cells vary
FullRows ==
    { <<PyStr("id"), key, slide, type, PyStr("Tbl"), r, c, PyStr("integer"), PyNone, PyStr("~"),
        PyStr("note")>> :
        key \in {PyStr("B1"), PyStr(""), PyNone},
        slide \in {PyStr("1"), PyStr("2"), PyStr("0"), PyStr("-2"), PyStr("2.9"), PyStr("abc"),
                   PyStr(""), PyStr("inf"), PyNone},
        type \in {PyStr("shape"), PyStr("Table_Cell"), PyNone},
        r \in {PyStr("1"), PyStr(""), PyStr("x"), PyStr("-Infinity"), PyNone},
        c \in {PyStr("2"), PyNone} }

RowInputs == { SubSeq(full, 1, n) : full \in FullRows, n \in 0..11 }

\* rows of a sheet: kept ones, an empty one, one of empty cells, ones without
\* a key, one that from_row cannot parse
LoadRows ==
    { RowOf(<<"a", "B1", "1", "shape", "Title">>),
      RowOf(<<"b", "B2", "2", "table_cell", "Tbl", "1", "2">>),
      RowOf(<<"c", "B3", "inf", "shape", "Title">>),
      RowOf(<<"d", "", "1", "shape", "Title">>),
      <<PyStr("e"), PyNone, PyStr("1")>>,
      RowOf(<<"f">>),
      RowOf(<<"", "", "">>),
      <<>> }

RInit ==
    /\ heap = <<>>
    /\ presentation = 0
    /\ shape_cache = EmptyDict
    /\ table_cache = EmptyDict
    /\ disk = NoFile
    /\ calls = 0
    /\ last = NoCall
    /\ pc = "start"
    /\ exit_code = -1
    /\ dry_run = FALSE
    /\ empty_value = ""
    /\ sheet_rows = <<>>
    /\ mappings = <<>>
    /\ ranges = <<>>
    /\ values_by_range = [k \in {} |-> PyNone]
    /\ idx = 0
    /\ success_count = 0
    /\ error_count = 0
    /\ errors = <<>>
    /\ outcomes = <<>>
    /\ trace = <<>>
    /\ opened = <<>>
    /\ format_call = NoFormat
    /\ row_call \in [values : {<<row>> : row \in RowInputs} \cup SeqsUpTo(LoadRows, MaxLoad),
                     op : {""}, raised : {FALSE}, result : {<<>>}]

\* MappingRow.from_row(row) is called
FromRow ==
    /\ row_call.op = ""
    /\ Len(row_call.values) = 1
    /\ \E res \in {from_row(row_call.values[1])} :
          row_call' = [row_call EXCEPT !.op = "from_row", !.raised = (res = OverflowError),
                                       !.result = IF res = OverflowError THEN <<>> ELSE <<res>>]
    /\ UNCHANGED <<bridgeVars, sessionVars, mainVars, format_call>>

\* read_mapping() is called, the API returning the rows
ReadRows ==
    /\ row_call.op = ""
    /\ \E res \in {read_mapping(row_call.values)} :
          row_call' = [row_call EXCEPT !.op = "read_mapping", !.result = res]
    /\ UNCHANGED <<bridgeVars, sessionVars, mainVars, format_call>>

RNext == FromRow \/ ReadRows

SpecRows == RInit /\ [][RNext]_vars

----------------------------------------------------------------------------
(* Properties of a run of main, checked under Spec *)

\* positions of the trace at which ev was called
Calls(ev) == {i \in 1..Len(trace) : trace[i].ev = ev}
FailedCalls(ev) == {i \in Calls(ev) : ~trace[i].ok}

\* rows processed so far that succeeded, that failed, that reached a mutator
OkRows == {i \in 1..Len(outcomes) : outcomes[i].ok}
FailedRows == {i \in 1..Len(outcomes) : ~outcomes[i].ok}
MutatedRows == {i \in 1..Len(outcomes) : outcomes[i].called # ""}

\* C1: in a run that is not a dry run, the loop processes the mappings once each
\* and in list order, whatever the earlier rows returned; when the loop has
\* ended, success_count plus the number of failed rows is the number of
\* mappings, and errors holds one message per failed row.
C1_EveryRowProcessedOnce ==
    (~dry_run /\ pc \in {"applying", "done"}) =>
        /\ Len(outcomes) = idx - 1
        /\ \A i \in 1..Len(outcomes) : outcomes[i].at = i
        /\ success_count = Cardinality(OkRows)
        /\ Len(errors) = Cardinality(FailedRows)
        /\ pc = "done" =>
              /\ Len(outcomes) = Len(mappings)
              /\ success_count + Cardinality(FailedRows) = Len(mappings)

C1_Witness ==
    /\ ~dry_run /\ pc = "done" /\ Len(mappings) = 3
    /\ Len(outcomes) = 3 /\ ~outcomes[1].ok /\ outcomes[2].ok /\ ~outcomes[3].ok
    /\ Len(errors) = 2

\* C2: when open, read_mapping or batch_get_values has failed, the run has
\* exited with a status other than 0, and it has called neither a mutator of
\* the bridge nor save.
C2_EarlyFailureExits ==
    (FailedCalls("open") \cup FailedCalls("read_mapping") \cup FailedCalls("batch_get_values") # {}) =>
        /\ pc = "exit" /\ exit_code # 0
        /\ outcomes = <<>>
        /\ Calls("save") = {}

C2_Witness ==
    /\ FailedCalls("batch_get_values") # {} /\ pc = "exit" /\ exit_code = 1
    /\ Len(mappings) = 3 /\ ~dry_run

\* C3: in a dry run no row reaches a mutator and save is not called: the
\* document and both lookup caches stay as they were right after open.
C3_DryRunChangesNothing ==
    (dry_run /\ pc \in {"applying", "done"}) =>
        /\ MutatedRows = {}
        /\ Calls("save") = {}
        /\ heap[presentation] = opened
        /\ shape_cache = EmptyDict /\ table_cache = EmptyDict
        /\ disk.doc = opened

C3_Witness ==
    /\ dry_run /\ pc = "done" /\ Len(outcomes) = 3
    /\ \E i, j \in 1..3 : /\ mappings[i].target_type = "shape" /\ mappings[i].object_name = "Title"
                            /\ mappings[i].slide_index = 1
                            /\ mappings[j].target_type = "table_cell" /\ mappings[j].row # PyNone

\* C4: save is called once, after the last mapping was processed, when the run
\* is not a dry run and a row succeeded; it is not called in a dry run, nor
\* when no row succeeded, nor before the loop has ended.
C4_SaveOnceAfterLoop ==
    /\ pc # "done" => Calls("save") = {}
    /\ pc = "done" =>
          /\ Cardinality(Calls("save")) = (IF ~dry_run /\ OkRows # {} THEN 1 ELSE 0)
          /\ Len(outcomes) = Len(mappings)

C4_Witness ==
    /\ pc = "done" /\ ~dry_run /\ Cardinality(Calls("save")) = 1
    /\ Len(outcomes) = 3 /\ Cardinality(OkRows) = 1 /\ outcomes[3].ok

\* C5: a run that reaches the summary exits with 0 exactly when no row failed
\* and no save failed, error_count being the failed rows plus one for a failed
\* save; a failed save leaves the document in memory as the loop left it.
C5_ExitCodeCountsFailures ==
    pc = "done" =>
        /\ error_count = Cardinality(FailedRows) + Cardinality(FailedCalls("save"))
        /\ (exit_code = 0) <=> (FailedRows = {} /\ FailedCalls("save") = {})
        /\ exit_code \in {0, 1}
        /\ outcomes # <<>> => heap = outcomes[Len(outcomes)].after

C5_Witness ==
    /\ pc = "done" /\ FailedRows = {} /\ FailedCalls("save") # {} /\ exit_code = 1
    /\ Len(outcomes) = 2 /\ heap[presentation] # opened

\* C6: a run that reaches the loop has called batch_get_values once, with the
\* non-empty sheet_range values of the mappings, each of them once.
C6_OneFetchOfDistinctKeys ==
    pc \in {"applying", "done"} =>
        /\ Cardinality(Calls("batch_get_values")) = 1
        /\ \A c \in Calls("batch_get_values") :
              /\ {trace[c].keys[j] : j \in 1..Len(trace[c].keys)}
                    = {mappings[k].sheet_range : k \in 1..Len(mappings)} \ {""}
              /\ \A a, b \in 1..Len(trace[c].keys) : a # b => trace[c].keys[a] # trace[c].keys[b]
              /\ \A a \in 1..Len(trace[c].keys) : trace[c].keys[a] # ""

C6_Witness ==
    /\ pc = "applying" /\ Len(mappings) = 3
    /\ mappings[1].sheet_range = "B2" /\ mappings[2].sheet_range = "B1" /\ mappings[3].sheet_range = "B2"
    /\ \E c \in Calls("batch_get_values") : trace[c].keys = <<"B1", "B2">>

\* rows of the mapping sheet that are not empty, and those of them with a key
Filled == {i \in 1..Len(sheet_rows) : \E j \in 1..Len(sheet_rows[i]) : sheet_rows[i][j] # PyStr("")}
Keyed == {i \in Filled : Len(sheet_rows[i]) >= 2 /\ sheet_rows[i][2] # PyStr("")}
Loaded == pc \in {"ranges", "fetch", "applying", "done"}

\* C7: a row of the mapping sheet whose sheet_range is empty takes no part in
\* the run: the mappings are the rows with a key, no fetch asks for the empty
\* key, and the rows given to process_mapping, counted as success or failure,
\* are rows with a key.
C7_BlankKeyRowsExcluded ==
    Loaded =>
        /\ Len(mappings) = Cardinality(Keyed)
        /\ \A k \in 1..Len(mappings) : mappings[k].sheet_range # ""
        /\ \A c \in Calls("batch_get_values") : \A j \in 1..Len(trace[c].keys) : trace[c].keys[j] # ""
        /\ \A i \in 1..Len(outcomes) : mappings[outcomes[i].at].sheet_range # ""
        /\ success_count + Len(errors) = Len(outcomes)
        /\ Len(outcomes) <= Cardinality(Keyed)
        /\ pc = "done" => Len(outcomes) = Cardinality(Keyed)

\* three rows, a shape, a table cell and one with a blank key, and two values
C7_Witness ==
    /\ pc = "done" /\ ~dry_run
    /\ Len(sheet_rows) = 3 /\ Cardinality(Keyed) = 2
    /\ \E i \in 1..3 : sheet_rows[i][1] = PyStr("note") /\ sheet_rows[i][2] = PyStr("")
    /\ Cardinality(DOMAIN values_by_range) = 2
    /\ Len(outcomes) = 2 /\ success_count = 2 /\ error_count = 0
    /\ {outcomes[i].called : i \in 1..2} = {"update_shape_text", "update_table_cell"}

----------------------------------------------------------------------------
(* Properties of the bridge, checked under SpecBridge *)

\* the document the bridge held when the last call was made
PreDoc == last.pre[presentation]

\* an uncached scan of slide slide_index of doc for the first shape that
\* has the name (and a table): its position, 0 when the index is out of range or none does
Scan(doc, slide_index, name, table) ==
    IF slide_index < 1 \/ slide_index > Len(doc) THEN 0
    ELSE IF \E k \in 1..Len(doc[slide_index]) :
               doc[slide_index][k].name = name /\ (table => doc[slide_index][k].has_table)
    THEN CHOOSE k \in 1..Len(doc[slide_index]) :
            /\ doc[slide_index][k].name = name /\ (table => doc[slide_index][k].has_table)
            /\ \A j \in 1..(k - 1) :
                  ~(doc[slide_index][j].name = name /\ (table => doc[slide_index][j].has_table))
    ELSE 0

\* C8: update_shape_text returns (False, message) and leaves the document
\* unchanged when the slide index is below 1 or above the slide count, when no
\* shape of the slide has the name, or when the shape found has no text frame.
C8_ShapeResolutionFails ==
    (last.op = "update_shape_text" /\ presentation # 0) =>
        LET k == Scan(PreDoc, last.slide_index, last.name, FALSE) IN
        (k = 0 \/ ~PreDoc[last.slide_index][k].has_text_frame) =>
            /\ last.ok = FALSE
            /\ last.msg # ""
            /\ heap = last.pre

\* C8 witness: an update aimed at a picture (a shape without text frame) failed
C8_Witness ==
    /\ last.op = "update_shape_text" /\ presentation # 0
    /\ last.name = "Logo" /\ last.slide_index = 1
    /\ Scan(PreDoc, 1, last.name, FALSE) = 2
    /\ last.ok = FALSE

\* C9: update_table_cell with row < 1, row > rowCount, col < 1, col > columnCount,
\* or with a table that is not found, returns a failure and leaves every cell
\* (and the size) of every table unchanged.
C9_CellOutOfRangeFails ==
    (last.op = "update_table_cell" /\ presentation # 0) =>
        LET k == Scan(PreDoc, last.slide_index, last.name, TRUE) IN
        (\/ k = 0
         \/ last.row < 1 \/ last.row > Len(PreDoc[last.slide_index][k].table.rows)
         \/ last.col < 1 \/ last.col > PreDoc[last.slide_index][k].table.ncols) =>
            /\ last.ok = FALSE
            /\ heap = last.pre

\* C9 witness: a call on an existing 2x2 table with column 0 failed
C9_Witness ==
    /\ last.op = "update_table_cell" /\ presentation # 0
    /\ Scan(PreDoc, last.slide_index, last.name, TRUE) # 0
    /\ last.row = 1 /\ last.col = 0
    /\ last.ok = FALSE

\* C10: after a successful update_shape_text on a text frame that had at least
\* one paragraph, the frame holds exactly one paragraph of exactly one run whose
\* text is new_text.
C10_OneParagraphOneRun ==
    (last.op = "update_shape_text" /\ presentation # 0 /\ last.ok) =>
        LET k == Scan(PreDoc, last.slide_index, last.name, FALSE)
            before == PreDoc[last.slide_index][k].paragraphs
            after == heap[presentation][last.slide_index][k].paragraphs
        IN  before # <<>> =>
              /\ Len(after) = 1
              /\ Len(after[1].runs) = 1
              /\ after[1].runs[1].text = last.text

\* an attribute of the first run that was set is the attribute of the new run
Kept(original, replaced) == original # PyNone => replaced = original

\* C11: after a successful update_shape_text of a shape whose first paragraph
\* had a run, the font name, size, bold, italic and RGB colour of the new run
\* are those of the former first run, for each of them that was set.
C11_ShapeStyleKept ==
    (last.op = "update_shape_text" /\ presentation # 0 /\ last.ok) =>
        LET k == Scan(PreDoc, last.slide_index, last.name, FALSE)
            before == PreDoc[last.slide_index][k].paragraphs
            after == heap[presentation][last.slide_index][k].paragraphs
        IN  (before # <<>> /\ before[1].runs # <<>>) =>
              /\ Kept(before[1].runs[1].font.name, after[1].runs[1].font.name)
              /\ Kept(before[1].runs[1].font.size, after[1].runs[1].font.size)
              /\ Kept(before[1].runs[1].font.bold, after[1].runs[1].font.bold)
              /\ Kept(before[1].runs[1].font.italic, after[1].runs[1].font.italic)
              /\ before[1].runs[1].font.color.t = "str" =>
                    after[1].runs[1].font.color = before[1].runs[1].font.color

\* the paragraphs of the cell the last update_table_cell was given, in doc
LastCell(doc) ==
    doc[last.slide_index][Scan(PreDoc, last.slide_index, last.name, TRUE)]
        .table.rows[last.row][last.col].paragraphs

\* C12: a successful update_table_cell keeps, as update_shape_text does, the
\* font name, size, bold, italic and RGB colour of the former first run of the
\* cell, for each of them that was set.
C12_CellStyleKept ==
    (last.op = "update_table_cell" /\ presentation # 0 /\ last.ok) =>
        LET before == LastCell(PreDoc)
            after == LastCell(heap[presentation])
        IN  (before # <<>> /\ before[1].runs # <<>>) =>
              /\ Kept(before[1].runs[1].font.name, after[1].runs[1].font.name)
              /\ Kept(before[1].runs[1].font.size, after[1].runs[1].font.size)
              /\ Kept(before[1].runs[1].font.bold, after[1].runs[1].font.bold)
              /\ Kept(before[1].runs[1].font.italic, after[1].runs[1].font.italic)
              /\ before[1].runs[1].font.color.t = "str" =>
                    after[1].runs[1].font.color = before[1].runs[1].font.color

----------------------------------------------------------------------------
(* Properties of a long bridge session, checked under SpecSession *)

\* the last call repeated the call before it
Repeated == last.op \in {"update_shape_text", "update_table_cell"} /\ last.prev.call = Signature(last)

\* C13: an update made twice in a row leaves, the second time, the document as
\* the first left it, and returns the result pair the first returned.
C13_TwiceIsOnce ==
    Repeated => /\ heap = last.pre
                /\ last.ok = last.prev.ok
                /\ last.msg = last.prev.msg

\* the reference an uncached scan of the open presentation gives
ScanRef(slide_index, name, table) ==
    IF Scan(heap[presentation], slide_index, name, table) = 0 THEN NoRef
    ELSE Ref(presentation, slide_index, Scan(heap[presentation], slide_index, name, table))

\* one presentation was opened, once
OneSession == presentation # 0 /\ Len(heap) = 1

\* C14: in the session of one opened presentation, whatever was looked up and
\* updated before, _find_shape_by_name returns the first shape of the slide
\* with the name and _find_table_by_name the first shape with the name that
\* has a table, and both return None when the index is out of range or no
\* shape matches: what a scan without the caches returns.
C14_CachedLookupIsScan ==
    OneSession =>
        \A slide_index \in IndexArgs, name \in NameArgs :
            /\ FindShapeByName(heap, presentation, shape_cache, slide_index, name).ref
                  = ScanRef(slide_index, name, FALSE)
            /\ FindTableByName(heap, presentation, table_cache, slide_index, name).ref
                  = ScanRef(slide_index, name, TRUE)

\* C14 witness: both caches hold the key (2, "Tbl"), for different shapes, and
\* the last call was answered from a cache
C14_Witness ==
    /\ OneSession
    /\ <<2, "Tbl">> \in DOMAIN shape_cache
    /\ <<2, "Tbl">> \in DOMAIN table_cache
    /\ shape_cache[<<2, "Tbl">>] # table_cache[<<2, "Tbl">>]
    /\ Repeated
    /\ last.ok

\* C15: after open() is called again no cache entry made before it is left,
\* and a successful update changes the presentation that is open (the one
\* save() writes) and no other.
C15_ReopenClearsCaches ==
    /\ \A key \in DOMAIN shape_cache : shape_cache[key].pres = presentation
    /\ \A key \in DOMAIN table_cache : table_cache[key].pres = presentation
    /\ (last.op \in {"update_shape_text", "update_table_cell"} /\ last.ok) =>
          \A i \in 1..Len(heap) : i # presentation => heap[i] = last.pre[i]


\* the shape that the successful lookup of the last call resolved: the entry
\* the lookup left in the cache
Resolved ==
    IF last.op = "update_shape_text" THEN shape_cache[<<last.slide_index, last.name>>]
    ELSE table_cache[<<last.slide_index, last.name>>]

\* C30: a successful update_shape_text changes only the text container of the
\* shape it resolved, and a successful update_table_cell only the cell at
\* (row, col): every other shape, table and cell of every slide, and the numbers
\* of slides, shapes, rows and columns, are as before the call.
C30_OnlyTheTargetChanges ==
    /\ (last.op = "update_shape_text" /\ last.ok) =>
          heap = [last.pre EXCEPT ![Resolved.pres][Resolved.slide][Resolved.shape].paragraphs =
                                     Deref(heap, Resolved).paragraphs]
    /\ (last.op = "update_table_cell" /\ last.ok) =>
          heap = [last.pre EXCEPT ![Resolved.pres][Resolved.slide][Resolved.shape]
                                     .table.rows[last.row][last.col] =
                                     Deref(heap, Resolved).table.rows[last.row][last.col]]

\* a cell of a table of two columns was rewritten, after a shape of a slide of
\* several shapes was
C30_Witness ==
    /\ last.op = "update_table_cell" /\ last.ok
    /\ heap # last.pre
    /\ Deref(heap, Resolved).table.ncols = 2
    /\ last.prev.call.op = "update_shape_text" /\ last.prev.ok

----------------------------------------------------------------------------
(* Properties of format_value, checked under SpecFormat *)

\* the call followed has been made
Called == format_call.done

\* the raw value is None, or a string of nothing but whitespace
EmptyRaw ==
    \/ format_call.raw_value = PyNone
    \/ /\ format_call.raw_value.t = "str"
       /\ \A i \in 1..Len(format_call.raw_value.v) :
             IsSpace(SubSeq(format_call.raw_value.v, i, i))

\* the format code as the branches compare it
Code == IF format_call.fmt = "" THEN "text" ELSE Strip(Lower(format_call.fmt))

\* the result is the text between the prefix and the suffix
Shows(text) == format_call.result = format_call.prefix \o text \o format_call.suffix

\* the number parsed from the raw value
Parsed == parse_number(format_call.raw_value)

\* C16: for a raw value that is None, or a string that is empty or whitespace
\* only, format_value returns empty_value as it is, without prefix or suffix,
\* whatever the format code.
C16_EmptyGivesEmptyValue ==
    (Called /\ EmptyRaw) => format_call.result = format_call.empty_value

\* C16 witness: a whitespace string under an unknown code, with prefix and suffix
C16_Witness ==
    /\ Called
    /\ format_call.raw_value = PyStr(" \t\n") /\ format_call.fmt = "bogus"
    /\ format_call.prefix = "~" /\ format_call.suffix = "~" /\ format_call.empty_value = "n/a"
    /\ format_call.result = "n/a"

\* no date is read from the raw value under the date code
Undated ==
    \/ Code = "date_mdy"
          /\ DateObj(format_call.raw_value, <<"%Y-%m-%d", "%m/%d/%Y", "%d/%m/%Y", "%B %d, %Y">>) = NoDate
    \/ Code = "date_short"
          /\ DateObj(format_call.raw_value, <<"%Y-%m-%d", "%m/%d/%Y", "%d/%m/%Y">>) = NoDate

\* no number is parsed from the raw value under a code that needs one
Unparsed == Code \in NumericFormats \cup {"text_number"} /\ Parsed = NoNum

\* round() raises on the number parsed: an infinity or a nan
Faulted == Code \in {"integer", "text_number"} /\ Parsed # NoNum /\ ~IsFinite(Parsed)

\* C17: when no number or no date is parsed from the raw value, or a step of
\* the formatting raises, the result of format_value is the prefix, str() of the
\* raw value and the suffix.
C17_FailureFallsBack ==
    (Called /\ ~EmptyRaw /\ (Unparsed \/ Undated \/ Faulted)) => Shows(PyStrOf(format_call.raw_value))

\* C17 witness: int(round(inf)) raises under integer, and the text "inf" is shown
C17_Witness ==
    /\ Called /\ Faulted
    /\ format_call.raw_value = PyStr("inf") /\ Code = "integer"
    /\ format_call.prefix = "~"
    /\ format_call.result = "~inf" \o format_call.suffix

\* the decimals of a code that ends in 0, 1 or 2
Decimals == DigitVal(SubSeq(Code, Len(Code), Len(Code)))

\* the call has no prefix and no suffix, and this raw value and format code
Exactly(raw_value, fmt) ==
    /\ Called
    /\ format_call.raw_value = raw_value /\ format_call.fmt = fmt
    /\ format_call.prefix = "" /\ format_call.suffix = ""

\* C18: under percent0, percent1 and percent2 the number v parsed is shown
\* times 100 when 0 < |v| <= 1 and as it is otherwise: 0.325 gives "32.5%", 42
\* gives "42.0%", 1 gives "100.0%", -1 gives "-100.0%" and 0 gives "0.0%".
C18_PercentMultiplyRule ==
    /\ (Called /\ ~EmptyRaw /\ Code \in {"percent0", "percent1", "percent2"} /\ Parsed # NoNum) =>
          Shows(format_percent(Parsed, Decimals,
                               IsFinite(Parsed) /\ Parsed.m # 0 /\ Parsed.m <= Pow10(Parsed.k)))
    /\ Exactly(PyFloat(Num(FALSE, 325, 3)), "percent1") => format_call.result = "32.5%"
    /\ Exactly(PyInt(42), "percent1") => format_call.result = "42.0%"
    /\ Exactly(PyFloat(Num(FALSE, 420, 1)), "percent1") => format_call.result = "42.0%"
    /\ Exactly(PyInt(1), "percent1") => format_call.result = "100.0%"
    /\ Exactly(PyInt(-1), "percent1") => format_call.result = "-100.0%"
    /\ Exactly(PyInt(0), "percent1") => format_call.result = "0.0%"

\* C18 witness: exactly 1 under percent1 is shown as 100.0%
C18_Witness == Exactly(PyFloat(Num(FALSE, 10, 1)), "percent1") /\ format_call.result = "100.0%"

\* the text of a string between its first and its last character
Inner(text) == SubSeq(text, 2, Len(text) - 1)

\* a string in one pair of parentheses around a number without sign
Accounting(value) ==
    /\ value.t = "str" /\ Len(value.v) > 2
    /\ Head(value.v) = "(" /\ SubSeq(value.v, Len(value.v), Len(value.v)) = ")"
    /\ CharAt(Inner(value.v), "-") = 0 /\ CharAt(Inner(value.v), "+") = 0
    /\ parse_number(PyStr(Inner(value.v))) # NoNum

\* C19: under currency0, currency1 and currency2 a raw value that parses to a
\* number is shown as "$" and the absolute value with thousands separators,
\* after a "-" exactly when the number is negative; a number in parentheses is
\* parsed as that number negated; "(500)" gives "-$500" and 7500000 gives
\* "$7,500,000".
C19_CurrencySign ==
    /\ (Called /\ ~EmptyRaw /\ Code \in {"currency0", "currency1", "currency2"} /\ Parsed # NoNum) =>
          Shows((IF IsNegative(Parsed) THEN "-" ELSE "") \o "$" \o FixedPoint(Abs(Parsed), Decimals, TRUE))
    /\ (Called /\ Accounting(format_call.raw_value)) =>
          Parsed = [parse_number(PyStr(Inner(format_call.raw_value.v))) EXCEPT !.neg = TRUE]
    /\ Exactly(PyStr("(500)"), "currency0") => format_call.result = "-$500"
    /\ Exactly(PyInt(7500000), "currency0") => format_call.result = "$7,500,000"

\* C19 witness: an amount in parentheses with symbol and separator
C19_Witness == Exactly(PyStr("($1,234.5)"), "currency2") /\ format_call.result = "-$1,234.50"

\* the number of days from 0001-01-01 to the date, counted year by year and
\* month by month
RECURSIVE DaysBeforeMonth(_, _)
DaysBeforeMonth(y, m) == IF m = 1 THEN 0 ELSE DaysBeforeMonth(y, m - 1) + DaysInMonth(y, m - 1)

DayNumber(date) ==
    365 * (date.y - 1) + (date.y - 1) \div 4 - (date.y - 1) \div 100 + (date.y - 1) \div 400
      + DaysBeforeMonth(date.y, date.m) + date.d

\* the number of days from 1899-12-30 to the date
DaysFromEpoch(date) == DayNumber(date) - DayNumber([y |-> 1899, m |-> 12, d |-> 30])

NewYear(y) == [y |-> y, m |-> 1, d |-> 1]

\* the year the day serial days after 1899-12-30 falls in: one of the three
\* around 1900 + serial / 365.2425
YearOfSerial(serial) ==
    CHOOSE y \in {1899 + (serial * 400) \div 146097 + shift : shift \in {0, 1, 2}} :
        DaysFromEpoch(NewYear(y)) <= serial /\ serial < DaysFromEpoch(NewYear(y + 1))

\* the month of year y that its day number day (from 1) falls in
MonthOfDay(y, day) ==
    CHOOSE m \in 1..12 : DaysBeforeMonth(y, m) < day /\ day <= DaysBeforeMonth(y, m) + DaysInMonth(y, m)

\* the date of day number day of year y
DateOfDay(y, day) == [y |-> y, m |-> MonthOfDay(y, day), d |-> day - DaysBeforeMonth(y, MonthOfDay(y, day))]

\* the date that is serial days after 1899-12-30: NoDate if datetime has none
SerialDate(serial) ==
    IF /\ serial >= DaysFromEpoch(NewYear(1))
       /\ serial < DaysFromEpoch(NewYear(10000))
    THEN DateOfDay(YearOfSerial(serial), serial - DaysFromEpoch(NewYear(YearOfSerial(serial))) + 1)
    ELSE NoDate

\* C20: under date_mdy and date_short an int n is shown as the calendar date n
\* days after 1899-12-30, as "Month D, YYYY" without padding of the day and as
\* "M/YYYY": 44287 gives "April 1, 2021" and "4/2021".
C20_SerialDate ==
    /\ (Called /\ format_call.raw_value.t = "int" /\ Code \in {"date_mdy", "date_short"}
          /\ SerialDate(format_call.raw_value.v) # NoDate) =>
          /\ MakeDate(SerialDate(format_call.raw_value.v).y, SerialDate(format_call.raw_value.v).m,
                      SerialDate(format_call.raw_value.v).d) # NoDate
          /\ Code = "date_mdy" =>
                Shows(MonthNames[SerialDate(format_call.raw_value.v).m] \o " "
                        \o ToString(SerialDate(format_call.raw_value.v).d) \o ", "
                        \o ToString(SerialDate(format_call.raw_value.v).y))
          /\ Code = "date_short" =>
                Shows(ToString(SerialDate(format_call.raw_value.v).m) \o "/"
                        \o ToString(SerialDate(format_call.raw_value.v).y))
    /\ Exactly(PyInt(44287), "date_mdy") => format_call.result = "April 1, 2021"
    /\ Exactly(PyInt(44287), "date_short") => format_call.result = "4/2021"

\* C20 witness: serial 44287 under date_mdy
C20_Witness == Exactly(PyInt(44287), "date_mdy") /\ format_call.result = "April 1, 2021"

\* C21: for a raw value that is not empty, the result of format_value with a
\* prefix and a suffix is the prefix, the result of the same call without
\* prefix and suffix, and the suffix; 1850 under integer with the prefix
\* "Total: " gives "Total: 1,850".
C21_AffixesAroundResult ==
    /\ (Called /\ ~EmptyRaw) =>
          Shows(format_value(format_call.raw_value, format_call.fmt, "", "", format_call.empty_value))
    /\ (Called /\ format_call.raw_value = PyInt(1850) /\ format_call.fmt = "integer"
          /\ format_call.prefix = "Total: " /\ format_call.suffix = "") =>
          format_call.result = "Total: 1,850"

\* C21 witness: a prefix and a suffix around a currency text
C21_Witness ==
    /\ Called
    /\ format_call.raw_value = PyInt(1850) /\ format_call.fmt = "currency0"
    /\ format_call.prefix = "Total: " /\ format_call.suffix = "~"
    /\ format_call.result = "Total: $1,850~"

----------------------------------------------------------------------------
(* Properties of from_row and read_mapping, checked under SpecRows *)

RowParsed == row_call.op = "from_row"
TheRow == row_call.values[1]

\* the cell at the 0-based index is missing or None
Absent(index) == index + 1 > Len(TheRow) \/ TheRow[index + 1] = PyNone

\* float-then-int converts the text of the cell
Convertible(cell) ==
    cell.t = "str" /\ ParseFloat(cell.v) # NoNum /\ IsFinite(ParseFloat(cell.v))

\* the integer column is missing, blank or not convertible
NoInt(index) == Absent(index) \/ ~Convertible(TheRow[index + 1])

\* the defaults of the text and integer columns in the descriptor m
RowDefaults(m) ==
    /\ Absent(0) => m.id = ""
    /\ Absent(1) => m.sheet_range = ""
    /\ Absent(3) => m.target_type = "shape"
    /\ Absent(4) => m.object_name = ""
    /\ Absent(7) => m.format = "text"
    /\ Absent(8) => m.prefix = ""
    /\ Absent(9) => m.suffix = ""
    /\ Absent(10) => m.notes = ""
    /\ NoInt(2) => m.slide_index = 1
    /\ NoInt(5) => m.row = PyNone
    /\ NoInt(6) => m.col = PyNone

\* C22: from_row never raises for a row of 0 to 11 cells, whatever the cells
\* hold: a missing or None text cell gives "" (or the default of the column), and
\* an integer column that is missing, blank or not convertible by float-then-int
\* gives its default (1 for slide_index, None for row and col).
C22_NeverRaises ==
    RowParsed => (~row_call.raised /\ RowDefaults(row_call.result[1]))

\* C23: every MappingRow that from_row produces has slide_index >= 1, whatever
\* the slide_index cell holds.
C23_SlideIndexPositive ==
    (RowParsed /\ ~row_call.raised) => row_call.result[1].slide_index >= 1

RowsLoaded == row_call.op = "read_mapping"

Blank(cell) == cell = PyNone \/ cell = PyStr("")

\* the row is not entirely empty and its column B is not blank
HasKey(row) ==
    /\ \E i \in 1..Len(row) : ~Blank(row[i])
    /\ Len(row) >= 2 /\ ~Blank(row[2])

\* C27: read_mapping returns exactly the rows that are not entirely empty and
\* whose sheet_range cell (column B) is not blank, parsed by from_row and in their
\* original relative order; every MappingRow returned has a non-empty sheet_range.
C27_LoaderKeepsKeyedRows ==
    RowsLoaded =>
      LET kept == SelectSeq(row_call.values, HasKey) IN
      /\ Len(row_call.result) = Len(kept)
      /\ \A i \in 1..Len(row_call.result) :
            row_call.result[i] = from_row(kept[i]) /\ row_call.result[i].sheet_range # ""

----------------------------------------------------------------------------
(* Further properties of a run of main, checked under Spec *)

\* read_mapping returned, and the list it returned is empty
EmptyMappingList == Calls("read_mapping") # {} /\ FailedCalls("read_mapping") = {} /\ mappings = <<>>

\* C24: when the mapping list read_mapping returns is empty, the run ends with
\* exit status 0 and has done no work: no batch_get_values, no call of a bridge
\* update method, no save; the document and the file are as they were.
C24_EmptyMappingNoWork ==
    EmptyMappingList =>
      /\ pc = "exit" /\ exit_code = 0
      /\ Calls("batch_get_values") = {} /\ Calls("save") = {}
      /\ outcomes = <<>>
      /\ heap[presentation] = opened
      /\ disk.doc = SampleDeck

\* rows were on the sheet, none of them with a key, and the run has ended
C24_Witness ==
    /\ EmptyMappingList
    /\ sheet_rows # <<>>
    /\ pc = "exit" /\ exit_code = 0

\* the mapping of the i-th row outcome
MappingOf(i) == mappings[outcomes[i].at]

KnownType(m) == m.target_type \in {"shape", "table_cell"}

\* C25: in a dry run the outcome of a row reflects the validation of its target
\* type: a mapping whose target_type is neither shape nor table_cell is reported
\* as a failed row, and only rows with a known target type are reported as success.
C25_PreviewValidatesTargetType ==
    dry_run =>
      \A i \in 1..Len(outcomes) :
         /\ ~KnownType(MappingOf(i)) => ~outcomes[i].ok
         /\ outcomes[i].ok => KnownType(MappingOf(i))

\* a table_cell mapping without row or col, or a mapping of unknown target type
Malformed(m) ==
    \/ m.target_type = "table_cell" /\ (m.row = PyNone \/ m.col = PyNone)
    \/ ~KnownType(m)

\* C26: outside a dry run, a table_cell mapping whose row or col is absent and a
\* mapping whose target type is unknown each give a failed row with no bridge
\* update method called for the row (the document is untouched by it), and the
\* rows after it are still processed: at the end every mapping has its outcome.
C26_MalformedRowFailsAlone ==
    ~dry_run =>
      /\ \A i \in 1..Len(outcomes) :
            /\ outcomes[i].at = i
            /\ Malformed(MappingOf(i)) =>
                 /\ ~outcomes[i].ok
                 /\ outcomes[i].called = ""
                 /\ outcomes[i].after = outcomes[i].before
      /\ pc = "done" => Len(outcomes) = Len(mappings)

\* a run with both kinds of malformed rows, each followed by a row that a
\* bridge method then updated
C26_Witness ==
    /\ ~dry_run /\ pc = "done"
    /\ \E i, j \in 1..Len(outcomes) :
          /\ MappingOf(i).target_type = "table_cell" /\ MappingOf(i).row = PyNone
          /\ ~KnownType(MappingOf(j))
          /\ ~outcomes[i].ok /\ ~outcomes[j].ok
          /\ \E k \in 1..Len(outcomes) : k > i /\ k > j /\ outcomes[k].ok /\ outcomes[k].called # ""


\* the rows of a run that a bridge method updated
Writers == {i \in OkRows : outcomes[i].called # ""}

\* the rows name one target: the same shape, or the same cell of the same table
SameTarget(i, j) ==
    /\ MappingOf(i).target_type = MappingOf(j).target_type
    /\ MappingOf(i).slide_index = MappingOf(j).slide_index
    /\ MappingOf(i).object_name = MappingOf(j).object_name
    /\ MappingOf(i).target_type = "table_cell" =>
          MappingOf(i).row = MappingOf(j).row /\ MappingOf(i).col = MappingOf(j).col

\* the last of the updated rows that name the target of row i
LastWriter(i) ==
    CHOOSE j \in Writers : SameTarget(i, j) /\ \A k \in Writers : SameTarget(i, k) => k <= j

\* the text main formats for row i
Formatted(i) ==
    format_value(DictGet(values_by_range, MappingOf(i).sheet_range), MappingOf(i).format,
                 MappingOf(i).prefix, MappingOf(i).suffix, empty_value)

\* the paragraphs of the target of row i in the document as it is now
TargetParagraphs(i) ==
    IF MappingOf(i).target_type = "shape"
    THEN Deref(heap, ScanRef(MappingOf(i).slide_index, MappingOf(i).object_name, FALSE)).paragraphs
    ELSE Deref(heap, ScanRef(MappingOf(i).slide_index, MappingOf(i).object_name, TRUE))
            .table.rows[MappingOf(i).row.v][MappingOf(i).col.v].paragraphs

\* paragraph.text for a paragraph without line breaks, and text_frame.text
RECURSIVE RunsText(_)
RunsText(runs) == IF runs = <<>> THEN "" ELSE Head(runs).text \o RunsText(Tail(runs))

RECURSIVE FrameText(_)
FrameText(paragraphs) ==
    IF paragraphs = <<>> THEN ""
    ELSE IF Len(paragraphs) = 1 THEN RunsText(paragraphs[1].runs)
    ELSE RunsText(paragraphs[1].runs) \o "\n" \o FrameText(Tail(paragraphs))

----------------------------------------------------------------------------
(* Properties of a bridge session with exceptions, checked under SpecFault *)

UpdateFailed == last.op \in {"update_shape_text", "update_table_cell"} /\ ~last.ok

\* C28: the mutation of a row is all or nothing: whenever update_shape_text or
\* update_table_cell returns a failure, also when an exception is caught after
\* the first paragraph was cleared, the text and the style of the target (the
\* whole document) are exactly as before the call.
C28_FailureChangesNothing ==
    UpdateFailed => heap = last.pre


====
